---- MODULE Spec2Model ----
(***************************************************************************)
(* AdvanceSyn Modeller: a model of the GraphBuilder (model_access.py) and  *)
(* of the ModelMerger (model_merge.py).                                    *)
(*                                                                         *)
(* Python strings are sequences of one-character strings, so that          *)
(* str.split, str.strip and str + str are computed as Python computes      *)
(* them.  A Python dict (and a ConfigParser section, whose options live    *)
(* in a dict) is a sequence of [k, v] entries in insertion order.  Entity  *)
(* objects (ModelObject) live in a heap and are named by references, so    *)
(* that two tables holding the same object are visible as such.            *)
(***************************************************************************)
EXTENDS Integers, Sequences, FiniteSets, TLC

(***************************************************************************)
(* Bounds of the model.                                                    *)
(***************************************************************************)
\* largest number of specifications handed to modelMerge
NumSpecs == 3
\* largest number of entries of one Reactions stanza
MaxRxn == 2
\* largest number of reactions of all specifications of one merge together
MaxTotalRxn == 4
\* largest number of reactions of a specification handed to the generators
GenMaxRxn == 2
\* largest number of integration steps of a generated program that are followed
MaxSteps == 1

(***************************************************************************)
(* Strings.                                                                *)
(***************************************************************************)
DigitChars == <<"0", "1", "2", "3", "4", "5", "6", "7", "8", "9">>

RECURSIVE Str(_)
\* str(n) of a non-negative integer: its decimal digits
Str(n) == IF n < 10 THEN <<DigitChars[n + 1]>>
          ELSE Str(n \div 10) \o <<DigitChars[(n % 10) + 1]>>

Whitespace == {" "}

RECURSIVE LStrip(_)
LStrip(s) == IF s # <<>> /\ Head(s) \in Whitespace THEN LStrip(Tail(s)) ELSE s

RECURSIVE RStrip(_)
RStrip(s) == IF s # <<>> /\ s[Len(s)] \in Whitespace
             THEN RStrip(SubSeq(s, 1, Len(s) - 1)) ELSE s

\* str.strip()
Strip(s) == RStrip(LStrip(s))

\* sep occurs in s at position i
MatchAt(s, sep, i) ==
    /\ i + Len(sep) - 1 <= Len(s)
    /\ SubSeq(s, i, i + Len(sep) - 1) = sep

RECURSIVE SplitFrom(_, _, _, _, _)
SplitFrom(s, sep, i, cur, acc) ==
    IF i > Len(s) THEN Append(acc, cur)
    ELSE IF MatchAt(s, sep, i)
         THEN SplitFrom(s, sep, i + Len(sep), <<>>, Append(acc, cur))
         ELSE SplitFrom(s, sep, i + 1, Append(cur, s[i]), acc)

\* str.split(sep): the pieces between the non-overlapping occurrences of sep,
\* found from the left; empty pieces are kept
Split(s, sep) == SplitFrom(s, sep, 1, <<>>, <<>>)

(***************************************************************************)
(* Python dict: entries in insertion order.                                *)
(***************************************************************************)
Keys(d) == [i \in 1..Len(d) |-> d[i].k]
Values(d) == [i \in 1..Len(d) |-> d[i].v]
KeySet(d) == {d[i].k : i \in 1..Len(d)}
ValueSet(d) == {d[i].v : i \in 1..Len(d)}
Has(d, key) == key \in KeySet(d)
\* d[key], for a key of d
Get(d, key) == d[CHOOSE i \in 1..Len(d) : d[i].k = key].v
\* d[key] = val : a known key keeps its place, a new key goes last
SetItem(d, key, val) ==
    IF Has(d, key)
    THEN [i \in 1..Len(d) |-> IF d[i].k = key THEN [k |-> key, v |-> val] ELSE d[i]]
    ELSE Append(d, [k |-> key, v |-> val])
\* del d[key]
DelItem(d, key) == SelectSeq(d, LAMBDA e : e.k # key)
Entry(key, val) == [k |-> key, v |-> val]


(***************************************************************************)
(* ModelObject (model_object.py) and the heap of entity objects.           *)
(***************************************************************************)
\* a Python str and a Python int as values of ModelObject.value
StrVal(s) == [t |-> "str", s |-> s]
IntVal(n) == [t |-> "int", n |-> n]
NoneVal == [t |-> "None"]

\* ModelObject(name, description): no value, no influx, no outflux
ModelObject(name, description) ==
    [name |-> name, description |-> description,
     value |-> <<>>, influx |-> <<>>, outflux |-> <<>>]

(***************************************************************************)
(* GraphBuilder: model_access.py                                           *)
(***************************************************************************)
RECURSIVE GenObjectsFrom(_, _, _, _, _)
GenObjectsFrom(names, descriptions, i, objectlist, hp) ==
    IF i > Len(names) THEN [objlist |-> objectlist, heap |-> hp]
    ELSE GenObjectsFrom(names, descriptions, i + 1,
                        SetItem(objectlist, names[i], Len(hp) + 1),
                        Append(hp, ModelObject(names[i], descriptions[i])))

\* one new ModelObject per key of Objects, in the order of the stanza
generate_object_list_1(spec, hp) ==
    LET names == Keys(spec.Objects)
        descriptions == [i \in 1..Len(names) |-> Get(spec.Objects, names[i])]
    IN GenObjectsFrom(names, descriptions, 1, <<>>, hp)

RECURSIVE LoadInitialsFrom(_, _, _, _)
LoadInitialsFrom(spec, objlist, i, hp) ==
    IF i > Len(objlist) THEN hp
    ELSE LET name == objlist[i].k
             ref == objlist[i].v
             initial_value == IF Has(spec.Initials, name)
                              THEN StrVal(Get(spec.Initials, name))
                              ELSE IntVal(0)
         IN LoadInitialsFrom(spec, objlist, i + 1,
                [hp EXCEPT ![ref].value = SetItem(@, "initial", initial_value)])

\* value['initial'] of every entity: its Initials entry, the integer 0 without one
load_initials_1(spec, objlist, hp) == LoadInitialsFrom(spec, objlist, 1, hp)

StripAll(parts) == [i \in 1..Len(parts) |-> Strip(parts[i])]

\* movement.split('->') gave the sides; each is stripped, split at '+' and its
\* names are stripped
ParseMovement(movement, rateEq) ==
    [sources |-> StripAll(Split(Strip(movement[1]), <<"+">>)),
     destinations |-> StripAll(Split(Strip(movement[2]), <<"+">>)),
     rateEq |-> rateEq]

\* rdata.split('|') gave rdata: rdata[0] is the movement, rdata[1] the rate law
ParseData(rdata) ==
    ParseMovement(Split(Strip(rdata[1]), <<"-", ">">>), Strip(rdata[2]))

\* the parse of one Reactions value 'sources -> destinations | rateEq'
ParseReaction(rdata0) == ParseData(Split(rdata0, <<"|">>))

\* the table of reactions: reaction id -> sources, destinations, rateEq
process_reactions_1(spec) ==
    [i \in 1..Len(spec.Reactions) |->
        Entry(spec.Reactions[i].k, ParseReaction(spec.Reactions[i].v))]

\* obj = objlist[s]; obj.outflux[ID] = rateEq
AddOutfluxMisfiled(hp, ref, ID, rateEq) == [hp EXCEPT ![ref].influx = SetItem(@, ID, rateEq)]
AddOutflux(hp, ref, ID, rateEq) == [hp EXCEPT ![ref].outflux = SetItem(@, ID, rateEq)]

\* obj = objlist[d]; obj.influx[ID] = rateEq
AddInfluxMisfiled(hp, ref, ID, rateEq) == [hp EXCEPT ![ref].outflux = SetItem(@, ID, rateEq)]
AddInflux(hp, ref, ID, rateEq) == [hp EXCEPT ![ref].influx = SetItem(@, ID, rateEq)]

RECURSIVE LoadSources(_, _, _, _, _, _)
\* obj.outflux[ID] = rateEq for every source that is an entity of the table; an
\* empty name is passed over and an unknown name (KeyError) only prints
LoadSources(sources, j, ID, rateEq, objlist, hp) ==
    IF j > Len(sources) THEN hp
    ELSE LET s == sources[j]
         IN LoadSources(sources, j + 1, ID, rateEq, objlist,
                IF s # <<>> /\ Has(objlist, s)
                THEN AddOutflux(hp, Get(objlist, s), ID, rateEq)
                ELSE hp)

RECURSIVE LoadDestinations(_, _, _, _, _, _)
LoadDestinations(destinations, j, ID, rateEq, objlist, hp) ==
    IF j > Len(destinations) THEN hp
    ELSE LET d == destinations[j]
         IN LoadDestinations(destinations, j + 1, ID, rateEq, objlist,
                IF d # <<>> /\ Has(objlist, d)
                THEN AddInflux(hp, Get(objlist, d), ID, rateEq)
                ELSE hp)

\* the names of a reaction that are no entity of the table
UnknownNames(r, objlist) ==
    {n \in {r.sources[j] : j \in 1..Len(r.sources)}
            \cup {r.destinations[j] : j \in 1..Len(r.destinations)} :
        n # <<>> /\ ~Has(objlist, n)}

RECURSIVE LoadReactionsUncaught(_, _, _, _)
LoadReactionsUncaught(reactions, i, objlist, hp) ==
    IF i > Len(reactions) THEN hp
    ELSE IF UnknownNames(reactions[i].v, objlist) # {} THEN hp
    ELSE LET ID == reactions[i].k
             r == reactions[i].v
             hp1 == LoadSources(r.sources, 1, ID, r.rateEq, objlist, hp)
             hp2 == LoadDestinations(r.destinations, 1, ID, r.rateEq, objlist, hp1)
         IN LoadReactionsUncaught(reactions, i + 1, objlist, hp2)

RECURSIVE LoadReactionsFrom(_, _, _, _)
LoadReactionsFrom(reactions, i, objlist, hp) ==
    IF i > Len(reactions) THEN hp
    ELSE LET ID == reactions[i].k
             r == reactions[i].v
             hp1 == LoadSources(r.sources, 1, ID, r.rateEq, objlist, hp)
             hp2 == LoadDestinations(r.destinations, 1, ID, r.rateEq, objlist, hp1)
         IN LoadReactionsFrom(reactions, i + 1, objlist, hp2)

\* the reactions loaded into the entities of the table
load_reactions_1(reactions, objlist, hp) == LoadReactionsFrom(reactions, 1, objlist, hp)

\* 'except KeyError: print('%s is not found in Objects' % str(s))' in the loop
\* of the sources: the name printed for every source that is no entity
SourceWarnings(sources, objlist) ==
    SelectSeq(sources, LAMBDA s : s # <<>> /\ ~Has(objlist, s))

\* the same line in the loop of the destinations: s is the variable of the
\* loop of the sources, which holds the last source of the reaction
DestinationWarnings(sources, destinations, objlist) ==
    [w \in 1..Len(SelectSeq(destinations, LAMBDA d : d # <<>> /\ ~Has(objlist, d))) |->
        sources[Len(sources)]]

RECURSIVE LoadWarningsFrom(_, _, _, _)
\* what load_reactions_1 prints, in the order of its loops
LoadWarningsFrom(reactions, i, objlist, printed) ==
    IF i > Len(reactions) THEN printed
    ELSE LoadWarningsFrom(reactions, i + 1, objlist,
             printed \o SourceWarnings(reactions[i].v.sources, objlist)
                     \o DestinationWarnings(reactions[i].v.sources,
                                            reactions[i].v.destinations, objlist))

RECURSIVE LoadAllWarnings(_, _, _)
\* what is printed while the tables of the specifications are built
LoadAllWarnings(specs, tables, i) ==
    IF i > Len(specs) THEN <<>>
    ELSE LoadWarningsFrom(process_reactions_1(specs[i]), 1, tables[i], <<>>)
             \o LoadAllWarnings(specs, tables, i + 1)

\* specification type 1: objects, initials, reactions
load_asm_objects(spec, hp) ==
    LET g == generate_object_list_1(spec, hp)
        hp1 == load_initials_1(spec, g.objlist, g.heap)
        reactions == process_reactions_1(spec)
    IN [objlist |-> g.objlist,
        heap |-> load_reactions_1(reactions, g.objlist, hp1)]

RECURSIVE LoadAllFrom(_, _, _, _)
LoadAllNext(specs, i, tables, r) ==
    LoadAllFrom(specs, i + 1, Append(tables, r.objlist), r.heap)

\* 'for mf in modelfile': the table of each specification, appended to the list
LoadAllFrom(specs, i, tables, hp) ==
    IF i > Len(specs) THEN [modelobjList |-> tables, heap |-> hp]
    ELSE LoadAllNext(specs, i, tables, load_asm_objects(specs[i], hp))

(***************************************************************************)
(* ModelMerger: model_merge.py                                             *)
(***************************************************************************)
\* prefix='exp', the default of modelMerge and of the command line
Prefix == <<"e", "x", "p">>

\* str(prefix) + str(count)
NewID(prefix, cnt) == prefix \o Str(cnt)

\* count = count + 1
NextCountStuck(cnt) == cnt
NextCount(cnt) == cnt + 1

RECURSIVE RenumberTableFrom(_, _, _, _, _)
\* Step 1: table[rxn_ID] = str(prefix) + str(count) for the ids in stanza order
RenumberTableFrom(ids, i, prefix, cnt, tbl) ==
    IF i > Len(ids) THEN [table |-> tbl, count |-> cnt]
    ELSE RenumberTableFrom(ids, i + 1, prefix, NextCount(cnt),
                           SetItem(tbl, ids[i], NewID(prefix, cnt)))

\* one turn of the loop of Step 2 (and of the two loops of Step 3):
\* d[newID] = d[key] and then del d[key]
RekeyKeepingOld(d, key, newID) == SetItem(d, newID, Get(d, key))
Rekey(d, key, newID) == DelItem(SetItem(d, newID, Get(d, key)), key)

RECURSIVE RenumberDictFrom(_, _, _, _)
\* the loop over the keys the dict had when the loop began
RenumberDictFrom(d, ids, i, tbl) ==
    IF i > Len(ids) THEN d
    ELSE RenumberDictFrom(Rekey(d, ids[i], Get(tbl, ids[i])), ids, i + 1, tbl)

\* the outcome of looking table[key] up in Step 3: table is a local name that is
\* bound only inside 'if p_spec'
TableLookup(p_spec, tbl, key) ==
    IF ~p_spec THEN "UnboundLocalError"
    ELSE IF ~Has(tbl, key) THEN "KeyError"
    ELSE "ok"

RECURSIVE RenumberFluxFrom(_, _, _, _, _)
\* one flux map of one entity; stops at the first lookup that raises
RenumberFluxFrom(d, ids, i, p_spec, tbl) ==
    IF i > Len(ids) THEN [d |-> d, error |-> "ok"]
    ELSE LET look == TableLookup(p_spec, tbl, ids[i])
         IN IF look # "ok" THEN [d |-> d, error |-> look]
            ELSE RenumberFluxFrom(Rekey(d, ids[i], Get(tbl, ids[i])),
                                  ids, i + 1, p_spec, tbl)

\* the influx and then the outflux of one entity
RenumberObjectOutSkipped(obj, fout) == [obj |-> obj, error |-> fout.error]
RenumberObjectOut(obj, fout) ==
    [obj |-> [obj EXCEPT !.outflux = fout.d], error |-> fout.error]
RenumberObjectIn(obj, fin, p_spec, tbl) ==
    IF fin.error # "ok"
    THEN [obj |-> [obj EXCEPT !.influx = fin.d], error |-> fin.error]
    ELSE RenumberObjectOut([obj EXCEPT !.influx = fin.d],
                           RenumberFluxFrom(obj.outflux, Keys(obj.outflux), 1,
                                            p_spec, tbl))
RenumberObject(obj, p_spec, tbl) ==
    RenumberObjectIn(obj, RenumberFluxFrom(obj.influx, Keys(obj.influx), 1, p_spec, tbl),
                     p_spec, tbl)

RECURSIVE RenumberObjectsFrom(_, _, _, _, _)
RenumberObjectsNext(modelobj, i, p_spec, tbl, hp, r) ==
    IF r.error # "ok"
    THEN [heap |-> [hp EXCEPT ![modelobj[i].v] = r.obj], error |-> r.error]
    ELSE RenumberObjectsFrom(modelobj, i + 1, p_spec, tbl,
                             [hp EXCEPT ![modelobj[i].v] = r.obj])
\* Step 3: every entity of the table, in table order, up to the first exception
RenumberObjectsFrom(modelobj, i, p_spec, tbl, hp) ==
    IF i > Len(modelobj) THEN [heap |-> hp, error |-> "ok"]
    ELSE RenumberObjectsNext(modelobj, i, p_spec, tbl, hp,
                             RenumberObject(hp[modelobj[i].v], p_spec, tbl))

\* Steps 1 and 2, under 'if p_spec'
RenumberSpec(cnt, spec, prefix, p_spec) ==
    IF p_spec
    THEN RenumberTableFrom(Keys(spec.Reactions), 1, prefix, cnt, <<>>)
    ELSE [table |-> <<>>, count |-> cnt]

RenumberResult(spec, modelobj, p_spec, p_modelobj, hp, t) ==
    [spec |-> IF p_spec
              THEN [spec EXCEPT !.Reactions =
                       RenumberDictFrom(@, Keys(spec.Reactions), 1, t.table)]
              ELSE spec,
     table |-> t.table,
     count |-> t.count,
     objects |-> IF p_modelobj
                 THEN RenumberObjectsFrom(modelobj, 1, p_spec, t.table, hp)
                 ELSE [heap |-> hp, error |-> "ok"]]

\* _renumberReactions: the renumbered specification, the table of Step 1, the
\* next count, and the heap with the renumbered entities together with the
\* exception raised, if any
renumberReactions(cnt, spec, modelobj, prefix, p_spec, p_modelobj, hp) ==
    RenumberResult(spec, modelobj, p_spec, p_modelobj, hp,
                   RenumberSpec(cnt, spec, prefix, p_spec))

RECURSIVE MergeIdentifiersFrom(_, _, _)
\* Step 1 of mergeSpecification: count is set to 1 for every key, so the new
\* key is always key + '_1'
MergeIdentifiersFrom(d, s, i) ==
    IF i > Len(s) THEN d
    ELSE LET cnt == 1
             newkey == s[i].k \o <<"_">> \o Str(cnt)
         IN MergeIdentifiersFrom(SetItem(d, newkey, s[i].v), s, i + 1)

\* spec[stanza][key] = s[stanza][key]
MergeKeyFirstWins(d, key, val) == IF Has(d, key) THEN d ELSE SetItem(d, key, val)
MergeKey(d, key, val) == SetItem(d, key, val)

RECURSIVE MergeStanzaFrom(_, _, _)
\* Steps 2 to 5: spec[stanza][key] = s[stanza][key] for every key of s
MergeStanzaFrom(d, s, i) ==
    IF i > Len(s) THEN d
    ELSE MergeStanzaFrom(MergeKey(d, s[i].k, s[i].v), s, i + 1)

RECURSIVE MergeSpecificationFrom(_, _, _)
MergeSpecificationFrom(spec, specs, i) ==
    IF i > Len(specs) THEN spec
    ELSE LET s == specs[i]
         IN MergeSpecificationFrom(
                [Identifiers |-> MergeIdentifiersFrom(spec.Identifiers, s.Identifiers, 1),
                 Objects |-> MergeStanzaFrom(spec.Objects, s.Objects, 1),
                 Initials |-> MergeStanzaFrom(spec.Initials, s.Initials, 1),
                 Variables |-> MergeStanzaFrom(spec.Variables, s.Variables, 1),
                 Reactions |-> MergeStanzaFrom(spec.Reactions, s.Reactions, 1)],
                specs, i + 1)

\* mergeSpecification(spec, specList): the specifications of the list merged
\* into spec, in list order
mergeSpecification(spec, specs) == MergeSpecificationFrom(spec, specs, 1)

\* 'if nobj.influx[k] not in c_in: cobj.influx[k] = nobj.influx[k]'
MergeEntryAlways(cflux, k, expr, c) == SetItem(cflux, k, expr)
MergeEntry(cflux, k, expr, c) == IF expr \notin c THEN SetItem(cflux, k, expr) ELSE cflux

RECURSIVE MergeFluxFrom(_, _, _, _)
\* 'for k in nobj.influx: ...'; c holds the expressions taken from cobj before
\* the loop
MergeFluxFrom(cflux, nflux, i, c) ==
    IF i > Len(nflux) THEN cflux
    ELSE MergeFluxFrom(MergeEntry(cflux, nflux[i].k, nflux[i].v, c), nflux, i + 1, c)

\* the else branch of mergeModelObjects: the fluxes of nobj merged into cobj
MergeObjectReplaced(cobj, nobj) ==
    [nobj EXCEPT !.influx = MergeFluxFrom(cobj.influx, nobj.influx, 1, ValueSet(cobj.influx)),
                 !.outflux = MergeFluxFrom(cobj.outflux, nobj.outflux, 1, ValueSet(cobj.outflux))]
MergeObject(cobj, nobj) ==
    LET c_in == ValueSet(cobj.influx)
        c_out == ValueSet(cobj.outflux)
    IN [cobj EXCEPT !.influx = MergeFluxFrom(cobj.influx, nobj.influx, 1, c_in),
                    !.outflux = MergeFluxFrom(cobj.outflux, nobj.outflux, 1, c_out)]

\* modelobj[name] = mobjs[name]: the table gets the object of mobjs itself
InsertCopy(modelobj, name, ref, hp) ==
    [modelobj |-> SetItem(modelobj, name, Len(hp) + 1), heap |-> Append(hp, hp[ref])]
InsertWholesale(modelobj, name, ref, hp) ==
    [modelobj |-> SetItem(modelobj, name, ref), heap |-> hp]

RECURSIVE MergeTableFrom(_, _, _, _, _)
MergeTableInserted(names, mobjs, i, r) ==
    MergeTableFrom(r.modelobj, Append(names, mobjs[i].k), mobjs, i + 1, r.heap)
\* one turn of 'for mobjs in modelobjList': a name not in objectNames is
\* inserted, a known name gets the fluxes merged
MergeTableFrom(modelobj, names, mobjs, i, hp) ==
    IF i > Len(mobjs) THEN [modelobj |-> modelobj, objectNames |-> names, heap |-> hp]
    ELSE LET name == mobjs[i].k
         IN IF name \notin {names[j] : j \in 1..Len(names)}
            THEN MergeTableInserted(names, mobjs, i,
                                    InsertWholesale(modelobj, name, mobjs[i].v, hp))
            ELSE LET cref == Get(modelobj, name)
                     merged == MergeObject(hp[cref], hp[mobjs[i].v])
                 IN MergeTableFrom(modelobj, names, mobjs, i + 1,
                                   [hp EXCEPT ![cref] = merged])

(***************************************************************************)
(* Indexer, RateLawCompiler and SolverEmitter: generator_ode.py            *)
(***************************************************************************)
\* the characters \w of re matches in the texts of the model
WordChars ==
    {"a", "b", "c", "d", "e", "f", "g", "h", "i", "j", "k", "l", "m",
     "n", "o", "p", "q", "r", "s", "t", "u", "v", "w", "x", "y", "z",
     "A", "B", "C", "D", "E", "F", "G", "H", "I", "J", "K", "L", "M",
     "N", "O", "P", "Q", "R", "S", "T", "U", "V", "W", "X", "Y", "Z",
     "0", "1", "2", "3", "4", "5", "6", "7", "8", "9", "_"}

\* \b of re at the place before s[i] (after the last character for
\* i = Len(s) + 1): a word character on exactly one side
AtBoundary(s, i) ==
    (i > 1 /\ s[i - 1] \in WordChars) # (i <= Len(s) /\ s[i] \in WordChars)

\* the name, used as a pattern without escaping, matches s from s[i] on: '.'
\* matches any character, every other character of the names matches itself
PatternAt(k, s, i) ==
    /\ i + Len(k) - 1 <= Len(s)
    /\ \A j \in 1..Len(k) : k[j] = "." \/ k[j] = s[i + j - 1]

\* r'\b%s\b' % k matches s from s[i] on
WordAt(k, s, i) ==
    /\ AtBoundary(s, i)
    /\ PatternAt(k, s, i)
    /\ AtBoundary(s, i + Len(k))

RECURSIVE ReSubFrom(_, _, _, _, _)
ReSubFrom(k, repl, s, i, acc) ==
    IF i > Len(s) THEN acc
    ELSE IF WordAt(k, s, i)
         THEN ReSubFrom(k, repl, s, i + Len(k), acc \o repl)
         ELSE ReSubFrom(k, repl, s, i + 1, Append(acc, s[i]))

\* re.sub(r'\b%s\b' % k, repl, s): the matches from the left, not overlapping
ReSubWord(k, repl, s) == ReSubFrom(k, repl, s, 1, <<>>)

\* re.sub('\.', '_', name)
DotToUnderscore(name) ==
    [i \in 1..Len(name) |-> IF name[i] = "." THEN "_" ELSE name[i]]

RECURSIVE Join(_, _)
\* sep.join(parts)
Join(sep, parts) ==
    IF parts = <<>> THEN <<>>
    ELSE IF Len(parts) = 1 THEN parts[1]
    ELSE parts[1] \o sep \o Join(sep, Tail(parts))

\* count = count + 1
NextSlotSame(count) == count
NextSlot(count) == count + 1

RECURSIVE ObjectTableFrom(_, _, _, _)
\* 'for key in objlist: objTable[key] = count'
ObjectTableFrom(objlist, i, count, objTable) ==
    IF i > Len(objlist) THEN objTable
    ELSE ObjectTableFrom(objlist, i + 1, NextSlot(count),
                         SetItem(objTable, objlist[i].k, count))

\* the table of object numbering: name -> slot, counted from 0
generate_object_table(objlist) == ObjectTableFrom(objlist, 1, 0, <<>>)

\* 'y[%s]' % str(objTable[k])
Accessor(slot) == <<"y", "[">> \o Str(slot) \o <<"]">>

\* sTable: name -> accessor, in the order of objTable
STable(objTable) ==
    [i \in 1..Len(objTable) |-> Entry(objTable[i].k, Accessor(objTable[i].v))]

RECURSIVE SubstituteAll(_, _, _)
\* 'for k in objTable: ...[item] = re.sub(r'\b%s\b' % k, sTable[k], ...[item])'
SubstituteAll(expr, sTable, i) ==
    IF i > Len(sTable) THEN expr
    ELSE SubstituteAll(ReSubWord(sTable[i].k, sTable[i].v, expr), sTable, i + 1)

\* every expression of a flux map, under its key
SubstituteFlux(flux, sTable) ==
    [m \in 1..Len(flux) |-> Entry(flux[m].k, SubstituteAll(flux[m].v, sTable, 1))]

RECURSIVE SubstituteObjectsFrom(_, _, _, _)
\* 'for name in objlist': the influx and the outflux of the entity
SubstituteObjectsFrom(objlist, i, sTable, hp) ==
    IF i > Len(objlist) THEN hp
    ELSE SubstituteObjectsFrom(objlist, i + 1, sTable,
             [hp EXCEPT ![objlist[i].v].influx = SubstituteFlux(@, sTable),
                        ![objlist[i].v].outflux = SubstituteFlux(@, sTable)])

\* the entities with every rate equation rewritten, changed in place
substitute_rateEq(objlist, objTable, hp) ==
    SubstituteObjectsFrom(objlist, 1, STable(objTable), hp)

\* 'def %s(t, y):' % rateEq_name
DefLine(rateEq_name) == <<"d", "e", "f", " ">> \o rateEq_name \o <<"(", "t", ",", " ", "y", ")", ":">>

\* '    %s = %s' % (termName, term)
TermLine(termName, term) == <<" ", " ", " ", " ">> \o termName \o <<" ", "=", " ">> \o term

\* the lines and the term names of one flux map
FluxLines(flux) ==
    [m \in 1..Len(flux) |-> TermLine(DotToUnderscore(flux[m].k), flux[m].v)]
TermNames(flux) == [m \in 1..Len(flux) |-> DotToUnderscore(flux[m].k)]

\* 'if len(finalTerms[0]) == 0: finalTerms[0] = ['0']'
OrNothing(terms) == terms
OrZero(terms) == IF Len(terms) = 0 THEN << <<"0">> >> ELSE terms

\* '(%s)' and ' - (%s)' of the joined terms, after '    return '
ReturnLine(inTerms, outTerms) ==
    <<" ", " ", " ", " ", "r", "e", "t", "u", "r", "n", " ">> \o <<"(">> \o Join(<<" ", "+", " ">>, OrZero(inTerms)) \o <<")">>
        \o <<" ", "-", " ", "(">> \o Join(<<" ", "+", " ">>, OrZero(outTerms)) \o <<")">>

\* the lines of the derivative function of one entity
RateEqLines(name, obj) ==
    <<DefLine(DotToUnderscore(name))>>
        \o FluxLines(obj.influx) \o FluxLines(obj.outflux)
        \o <<ReturnLine(TermNames(obj.influx), TermNames(obj.outflux)), <<" ">> >>

RECURSIVE PrintRateEqFrom(_, _, _, _)
PrintRateEqFrom(objlist, i, hp, printList) ==
    IF i > Len(objlist) THEN printList
    ELSE PrintRateEqFrom(objlist, i + 1, hp,
                         printList \o RateEqLines(objlist[i].k, hp[objlist[i].v]))

\* the ODE function codes, one element one line
print_rateEq(objlist, hp) == PrintRateEqFrom(objlist, 1, hp, <<>>)

\* the solvers print_Setup has a block of ode.py for, in the order of its tests
Solvers ==
    <<"Euler", "Heun", "RK3", "RK4", "RK38", "CK4", "CK5", "RKF4", "RKF5",
      "DP4", "DP5">>

\* 'if solver == ...: printList = printList + odecode[...]': the blocks of
\* ode.py appended to its first part, by the name of their solver
SolverBlocks(solver) == SelectSeq(Solvers, LAMBDA name : name = solver)

\* 'ODE[%s] = %s' % (str(objTable[eqName]), str(name)): slot and function name
ODEVector(objTable) ==
    [i \in 1..Len(objTable) |->
        [slot |-> Str(objTable[i].v), name |-> DotToUnderscore(objTable[i].k)]]

\* labels = ['time'], then labels.append(name) for every eqName in objTable
LabelsAsDeclared(objTable) ==
    << <<"t", "i", "m", "e">> >> \o [i \in 1..Len(objTable) |-> objTable[i].k]
Labels(objTable) ==
    << <<"t", "i", "m", "e">> >>
        \o [i \in 1..Len(objTable) |-> DotToUnderscore(objTable[i].k)]

\* 'y[%s] = %s    # %s : %s': slot, initial value, name, description
YVector(objlist, objTable, hp) ==
    [i \in 1..Len(objTable) |->
        [slot |-> Str(objTable[i].v),
         initial |-> Get(hp[Get(objlist, objTable[i].k)].value, "initial"),
         name |-> objTable[i].k,
         description |-> hp[Get(objlist, objTable[i].k)].description]]

\* "'%s': [%s, %s], " % (str(objTable[name]), str(bound[0]), str(bound[1]))
BoundEntryThreshold(slot, bound) == Entry(Str(slot), <<bound[1], bound[1]>>)
BoundEntry(slot, bound) == Entry(Str(slot), <<bound[1], bound[2]>>)

\* 'lowerbound = {...}' and 'upperbound = {...}': one entry for every name
BoundTable(objTable, bound) ==
    [i \in 1..Len(objTable) |-> BoundEntry(objTable[i].v, bound)]

\* 'model = %s(ODE, 0.0, y, %s, %s, None, lowerbound, upperbound)'
ModelLine(solver, timestep, endtime) ==
    [solver |-> solver, ODE |-> "ODE", t0 |-> 0, y |-> "y", timestep |-> timestep,
     endtime |-> endtime, callback |-> "None", lowerbound |-> "lowerbound",
     upperbound |-> "upperbound"]

\* the ODE simulation setup codes, by their parts
print_Setup(objlist, objTable, solver, timestep, endtime, lowerbound, upperbound, hp) ==
    [odecode |-> SolverBlocks(solver),
     ODE |-> ODEVector(objTable),
     y |-> YVector(objlist, objTable, hp),
     labels |-> Labels(objTable),
     lowerbound |-> BoundTable(objTable, lowerbound),
     upperbound |-> BoundTable(objTable, upperbound),
     model |-> ModelLine(solver, timestep, endtime)]

(***************************************************************************)
(* NetworkMapper: generator_network.py                                     *)
(***************************************************************************)
RECURSIVE ExtractFrom(_, _, _)
ExtractFrom(specs, i, reactionList) ==
    IF i > Len(specs) THEN reactionList
    ELSE ExtractFrom(specs, i + 1, reactionList \o Values(specs[i].Reactions))

\* the reaction texts of all specifications, in list and stanza order
extractReactions(specs) == ExtractFrom(specs, 1, <<>>)

\* 'if reactionList[index][0] == ['']: reactionList[index][0] = ['X']'
SentinelNever(side) == side
Sentinel(side) == IF side = << <<>> >> THEN << <<"X">> >> ELSE side

\* x.split('|')[0], stripped, split at '->'; each side split at '+' and its
\* names stripped
ProcessMovement(movement) ==
    <<Sentinel(StripAll(Split(movement[1], <<"+">>))),
      Sentinel(StripAll(Split(movement[2], <<"+">>)))>>

\* the sources and the destinations of every reaction text
processReactions(reactionList) ==
    [i \in 1..Len(reactionList) |->
        ProcessMovement(Split(Strip(Split(reactionList[i], <<"|">>)[1]), <<"-", ">">>))]

\* 'r' + str(index) + 's' and 'r' + str(index) + 'p'
PseudoNodeShared(index, side) == <<"r">> \o Str(0) \o side
PseudoNode(index, side) == <<"r">> \o Str(index) \o side

\* '%s cr %s', '%s rc %s' and '%s rxn %s'
Edge(from, kind, to) == from \o <<" ">> \o kind \o <<" ">> \o to

\* the lines of the reaction with the given index, counted from 0
SIFLines(index, reaction) ==
    [j \in 1..Len(reaction[1]) |->
        Edge(reaction[1][j], <<"c", "r">>, PseudoNode(index, <<"s">>))]
    \o [j \in 1..Len(reaction[2]) |->
        Edge(PseudoNode(index, <<"p">>), <<"r", "c">>, reaction[2][j])]
    \o <<Edge(PseudoNode(index, <<"s">>), <<"r", "x", "n">>,
              PseudoNode(index, <<"p">>))>>

RECURSIVE SIFFrom(_, _, _)
SIFFrom(reactionList, i, datalist) ==
    IF i > Len(reactionList) THEN datalist
    ELSE SIFFrom(reactionList, i + 1, datalist \o SIFLines(i - 1, reactionList[i]))

generateSIF(reactionList) == SIFFrom(reactionList, 1, <<>>)

(***************************************************************************)
(* The specifications handed to the program.                               *)
(***************************************************************************)
nameA == <<"A">>
nameB == <<"B">>
nameC == <<"C">>

\* 'A -> B | k1*A'
Text1 == <<"A", " ", "-", ">", " ", "B", " ", "|", " ", "k", "1", "*", "A">>
\* 'A + Z -> B + C | k2*A': Z is in no Objects stanza
Text2 == <<"A", " ", "+", " ", "Z", " ", "-", ">", " ", "B", " ", "+", " ", "C",
           " ", "|", " ", "k", "2", "*", "A">>
\* '-> A | k1*A': no source
Text3 == <<"-", ">", " ", "A", " ", "|", " ", "k", "1", "*", "A">>

\* the texts the author of a specification chooses from freely
RxnTexts == {Text1, Text2}
\* the texts taken in turn
TextAt(j) == <<Text1, Text2, Text3>>[((j - 1) % 3) + 1]

\* the ids an author gives: r1, r2, ...; the ids an earlier merge with the same
\* prefix left: exp1, exp2, ...
IdSchemes == {<<"r">>, Prefix}

\* the stanzas other than Reactions of specification number i; the values carry
\* the number of the specification
Profiles == {1, 2, 3}
IdentifiersOf(p, i) ==
    IF p = 1 THEN <<Entry(<<"n", "a", "m", "e">>, <<"m">> \o Str(i))>>
    ELSE IF p = 2 THEN <<Entry(<<"n", "a", "m", "e">>, <<"m">> \o Str(i)),
                         Entry(<<"b", "y">>, <<"w">> \o Str(i))>>
    ELSE <<>>
ObjectsOf(p, i) ==
    IF p = 1 THEN <<Entry(nameA, <<"a">> \o Str(i)), Entry(nameB, <<"b">> \o Str(i))>>
    ELSE IF p = 2 THEN <<Entry(nameA, <<"a">> \o Str(i)), Entry(nameB, <<"b">> \o Str(i)),
                         Entry(nameC, <<"c">> \o Str(i))>>
    ELSE <<Entry(nameC, <<"c">> \o Str(i)), Entry(nameA, <<"a">> \o Str(i))>>
InitialsOf(p, i) ==
    IF p = 1 THEN <<Entry(nameA, Str(10 * i))>>
    ELSE IF p = 2 THEN <<Entry(nameA, Str(10 * i)), Entry(nameC, Str(i))>>
    ELSE <<>>
VariablesOf(p, i) ==
    IF p = 1 THEN <<Entry(<<"k", "1">>, <<"0", ".">> \o Str(i))>>
    ELSE IF p = 2 THEN <<Entry(<<"k", "1">>, <<"0", ".">> \o Str(i)),
                         Entry(<<"k", "2">>, <<"1", ".">> \o Str(i))>>
    ELSE <<Entry(<<"k", "2">>, <<"1", ".">> \o Str(i))>>

\* a Reactions stanza: the ids scheme1, scheme2, ... with the given texts; a
\* stanza with texts taken in turn starts at the text with the number 'first'
ReactionsOf(rx, first) ==
    [j \in 1..rx.len |->
        Entry(rx.scheme \o Str(j),
              IF rx.texts = <<>> THEN TextAt(first + j - 1) ELSE rx.texts[j])]

\* i is the number the values of the stanzas carry
MakeSpec(p, i, rx) ==
    [Identifiers |-> IdentifiersOf(p, i), Objects |-> ObjectsOf(p, i),
     Initials |-> InitialsOf(p, i), Variables |-> VariablesOf(p, i),
     Reactions |-> ReactionsOf(rx, i)]

Min(a, b) == IF a < b THEN a ELSE b

\* the Reactions stanzas of at most maxlen entries a specification may have:
\* "texts" and "copy" - the author's ids, any texts; "ids" - either id scheme,
\* the texts Text1, Text2, ... in turn; "one" - r1 with a text
RxnChoices(family, maxlen) ==
    IF family \in {"texts", "copy"}
    THEN {[scheme |-> <<"r">>, len |-> Len(t), texts |-> t] :
             t \in UNION {[1..l -> RxnTexts] : l \in 0..maxlen}}
    ELSE IF family = "ids"
    THEN {[scheme |-> sc, len |-> l, texts |-> <<>>] :
             sc \in IdSchemes, l \in 0..maxlen}
    ELSE {[scheme |-> <<"r">>, len |-> Min(1, maxlen), texts |-> <<>>]}

RECURSIVE TotalRxn(_)
TotalRxn(rxs) == IF rxs = <<>> THEN 0 ELSE Head(rxs).len + TotalRxn(Tail(rxs))

RECURSIVE RxnLists(_, _)
\* the lists of n Reactions stanzas with at most MaxTotalRxn reactions together;
\* in the family "copy" all stanzas of a list are the same
RxnLists(family, n) ==
    IF n = 0 THEN {<<>>}
    ELSE IF family = "copy"
    THEN {[i \in 1..n |-> rx] : rx \in RxnChoices(family, Min(MaxRxn, MaxTotalRxn \div n))}
    ELSE UNION {{Append(rest, rx) :
                    rx \in RxnChoices(family, Min(MaxRxn, MaxTotalRxn - TotalRxn(rest)))} :
                rest \in RxnLists(family, n - 1)}

\* the profiles of the specifications of a list
ProfileLists(family, n) ==
    IF family = "texts" THEN {[i \in 1..n |-> IF i = 1 THEN p ELSE 2] : p \in {1, 2}}
    ELSE IF family = "ids" THEN {[i \in 1..n |-> 2]}
    ELSE IF family = "copy" THEN {[i \in 1..n |-> p] : p \in Profiles}
    ELSE [1..n -> Profiles]

\* the number the values of specification i carry: the copies of a
\* specification are alike in every stanza
ValueNumber(family, i) == IF family = "copy" THEN 1 ELSE i

\* the flags of modelMerge
FlagChoices(family) == IF family = "ids" THEN BOOLEAN \X BOOLEAN ELSE {<<TRUE, TRUE>>}

Families == {"texts", "ids", "one", "copy"}

(***************************************************************************)
(* State.                                                                  *)
(***************************************************************************)
VARIABLES
    specList0,        \* the specifications as they were read, never changed
    specList,         \* the specification objects, changed in place
    modelobjList,     \* the entity tables: name -> reference into heap
    heap,             \* the ModelObject instances
    modelobjList0,    \* the entity tables as they were loaded, never changed
    heap0,            \* the ModelObject instances as they were loaded
    p_specList,       \* flag of modelMerge
    p_modelobjList,   \* flag of modelMerge
    count,            \* the reaction counter of renameReactions
    table,            \* the table of the latest call of _renumberReactions
    index,            \* the loop variable of the running loop
    objectNames,      \* local list of mergeModelObjects
    merged_spec,      \* 0 (None) or the number of a specification object
    merged_modelobj,  \* 0 (None) or the number of an entity table
    error,            \* the exception that ended the run, "ok" without one
    pc,
    command,          \* the command of astools.py that runs
    solver,           \* arguments of generateODEScript
    lowerbound,
    upperbound,
    outfmt,           \* argument of generateNetwork
    reactionTables,   \* the reaction tables of process_reactions_1, by specification
    objTable,         \* generate_ODE: name -> slot
    ODEList,          \* generate_ODE: the lines of print_rateEq
    ODESetup,         \* generate_ODE: the parts of print_Setup
    reactionList,     \* generateNetworkMap: the processed reactions
    datalist,         \* generateNetworkMap: the lines of the network file
    y,                \* the state vector of the generated program
    steps,            \* the integration steps the generated program has made
    modelspec,        \* modelspec_reader: the lines of the model file
    lineno,           \* the number of lines read
    cursect,          \* the name of the stanza being read, or None
    optname,          \* the key of the latest entry, or None
    indent_level,     \* the indentation of the latest entry or header
    sections,         \* the stanzas read: name -> key -> value
    exc,              \* whether a parsing error is waiting to be raised
    parser,           \* interface_cameo: the function that parses
    argument,         \* its argument: the mutation or medium change string
    ndict,            \* the dictionary it returns
    model,            \* runODEScript: the rows that the simulation yields
    sampling,         \* the sampling frequency
    rowCount,         \* the variable count of runODEScript
    data,             \* the row of the latest iteration
    resultfile,       \* the lines written to the result file
    warnings,         \* load_reactions_1: the names printed as not found in Objects
    bspec,            \* sensitivityGenerator: the Variables of the baseline specification
    bspec0,           \* the Variables as they were read, never changed
    multiple,         \* the multiple of the perturbation
    param,            \* the place of the loop in the Variables
    gModelSpecFiles,  \* the table returned: key -> file path and change
    tModelFile        \* the files written: file path -> Variables written

\* the state of the merge and the state of the generators
mergevars == <<specList0, modelobjList0, heap0, p_specList, p_modelobjList, count,
               table, index, objectNames, merged_spec, merged_modelobj>>
genvars == <<command, solver, lowerbound, upperbound, outfmt, reactionTables, objTable,
             ODEList, ODESetup, reactionList, datalist, y, steps>>

readvars == <<modelspec, lineno, cursect, optname, indent_level, sections, exc>>

\* the state of the functions of the tools
parsevars == <<parser, argument, ndict>>
samplevars == <<model, sampling, rowCount, data, resultfile>>
printvars == <<warnings>>
sensvars == <<bspec, bspec0, multiple, param, gModelSpecFiles, tModelFile>>
toolvars == <<parsevars, samplevars, printvars, sensvars>>

vars == <<specList0, specList, modelobjList, heap, modelobjList0, heap0,
          p_specList, p_modelobjList, count, table, index, objectNames, merged_spec,
          merged_modelobj, error, pc, genvars, readvars, toolvars>>

\* no model file is being read
ReadIdle ==
    /\ modelspec = <<>>
    /\ lineno = 0
    /\ cursect = NoneVal
    /\ optname = NoneVal
    /\ indent_level = 0
    /\ sections = <<>>
    /\ exc = FALSE

\* no function of the tools runs
ParseIdle ==
    /\ parser = "none"
    /\ argument = <<>>
    /\ ndict = <<>>

SampleIdle ==
    /\ model = <<>>
    /\ sampling = 0
    /\ rowCount = 0
    /\ data = <<>>
    /\ resultfile = <<>>

PrintIdle ==
    /\ warnings = <<>>

SensIdle ==
    /\ bspec = <<>>
    /\ bspec0 = <<>>
    /\ multiple = 0
    /\ param = 0
    /\ gModelSpecFiles = <<>>
    /\ tModelFile = <<>>

ToolIdle == ParseIdle /\ SampleIdle /\ PrintIdle /\ SensIdle

\* no generator runs
GenIdle ==
    /\ command = "genMO"
    /\ solver = "RK4"
    /\ lowerbound = <<0, 0>>
    /\ upperbound = <<10, 10>>
    /\ outfmt = "SIF"
    /\ reactionTables = <<>>
    /\ objTable = <<>>
    /\ ODEList = <<>>
    /\ ODESetup = <<>>
    /\ reactionList = <<>>
    /\ datalist = <<>>
    /\ y = <<>>
    /\ steps = 0

N == Len(specList0)

Init ==
    \E family \in Families :
      \E n \in 1..NumSpecs :
        \E rxs \in RxnLists(family, n), ps \in ProfileLists(family, n),
           flags \in FlagChoices(family) :
            /\ specList0 = [i \in 1..n |->
                               MakeSpec(ps[i], ValueNumber(family, i), rxs[i])]
            /\ specList = specList0
            /\ p_specList = flags[1]
            /\ p_modelobjList = flags[2]
            /\ modelobjList = <<>>
            /\ heap = <<>>
            /\ modelobjList0 = <<>>
            /\ heap0 = <<>>
            /\ count = 1
            /\ table = <<>>
            /\ index = 1
            /\ objectNames = <<>>
            /\ merged_spec = 0
            /\ merged_modelobj = 0
            /\ error = "ok"
            /\ pc = "load"
            /\ GenIdle
            /\ ReadIdle
            /\ ToolIdle

(***************************************************************************)
(* Actions.                                                                *)
(***************************************************************************)
\* generateModelObject: the entity table of every specification is built, in
\* list order, and modelMerge is called
Load ==
    /\ pc = "load"
    /\ \E r \in {LoadAllFrom(specList, 1, <<>>, heap)} :
          /\ modelobjList' = r.modelobjList
          /\ heap' = r.heap
          /\ modelobjList0' = r.modelobjList
          /\ heap0' = r.heap
          /\ warnings' = LoadAllWarnings(specList, r.modelobjList, 1)
    /\ index' = 1
    /\ pc' = "rename"
    /\ UNCHANGED <<genvars, readvars, parsevars, samplevars, sensvars>>
    /\ UNCHANGED <<specList0, specList, p_specList, p_modelobjList, count,
                   table, objectNames, merged_spec, merged_modelobj, error>>

\* renameReactions: one turn of its loop, a call of _renumberReactions
Rename ==
    /\ pc = "rename"
    /\ \E r \in {renumberReactions(count, specList[index], modelobjList[index],
                                   Prefix, p_specList, p_modelobjList, heap)} :
          /\ specList' = [specList EXCEPT ![index] = r.spec]
          /\ table' = r.table
          /\ heap' = r.objects.heap
          /\ count' = r.count
          /\ error' = r.objects.error
          /\ pc' = IF r.objects.error # "ok" THEN "raised"
                   ELSE IF index = N THEN "mergeSpec" ELSE "rename"
          /\ index' = IF r.objects.error = "ok" /\ index < N THEN index + 1 ELSE index
    /\ UNCHANGED <<genvars, readvars, toolvars>>
    /\ UNCHANGED <<specList0, modelobjList0, heap0, modelobjList, p_specList, p_modelobjList,
                   objectNames, merged_spec, merged_modelobj>>

\* modelMerge: the specifications are merged into the first one, or not at all
MergeSpec ==
    /\ pc = "mergeSpec"
    /\ IF p_specList /\ Len(specList) > 0
       THEN /\ merged_spec' = 1
            /\ specList' = [specList EXCEPT
                               ![1] = mergeSpecification(specList[1], Tail(specList))]
       ELSE /\ merged_spec' = 0
            /\ specList' = specList
    /\ pc' = "mergeObj"
    /\ UNCHANGED <<genvars, readvars, toolvars>>
    /\ UNCHANGED <<specList0, modelobjList0, heap0, modelobjList, heap, p_specList, p_modelobjList,
                   count, table, index, objectNames, merged_modelobj, error>>

\* modelMerge: the first table is the one merged into; mergeModelObjects begins
MergeObjBegin ==
    /\ pc = "mergeObj"
    /\ IF p_modelobjList /\ Len(modelobjList) > 0
       THEN /\ merged_modelobj' = 1
            /\ objectNames' = Keys(modelobjList[1])
            /\ index' = 2
            /\ pc' = "mergeLoop"
       ELSE /\ merged_modelobj' = 0
            /\ UNCHANGED <<objectNames, index>>
            /\ pc' = "return"
    /\ UNCHANGED <<genvars, readvars, toolvars>>
    /\ UNCHANGED <<specList0, modelobjList0, heap0, specList, modelobjList, heap, p_specList,
                   p_modelobjList, count, table, merged_spec, error>>

\* mergeModelObjects: one turn of 'for mobjs in modelobjList'
MergeObjStep ==
    /\ pc = "mergeLoop"
    /\ index <= N
    /\ \E r \in {MergeTableFrom(modelobjList[1], objectNames,
                                modelobjList[index], 1, heap)} :
          /\ modelobjList' = [modelobjList EXCEPT ![1] = r.modelobj]
          /\ objectNames' = r.objectNames
          /\ heap' = r.heap
    /\ index' = index + 1
    /\ UNCHANGED <<genvars, readvars, toolvars>>
    /\ UNCHANGED <<specList0, modelobjList0, heap0, specList, p_specList, p_modelobjList, count,
                   table, merged_spec, merged_modelobj, error, pc>>

\* modelMerge returns (merged_spec, merged_modelobj)
Return ==
    /\ \/ pc = "return"
       \/ pc = "mergeLoop" /\ index > N
    /\ pc' = "done"
    /\ UNCHANGED <<genvars, readvars, toolvars>>
    /\ UNCHANGED <<specList0, modelobjList0, heap0, specList, modelobjList, heap, p_specList,
                   p_modelobjList, count, table, index, objectNames, merged_spec,
                   merged_modelobj, error>>

Next == Load \/ Rename \/ MergeSpec \/ MergeObjBegin \/ MergeObjStep \/ Return

Spec == Init /\ [][Next]_vars

(***************************************************************************)
(* The generators: generateODEScript and generateNetwork of astools.py.    *)
(***************************************************************************)
nameAB == <<"A", "B">>
nameA_B == <<"A", ".", "B">>

\* the Objects stanzas, by their names in the order of declaration
GenObjects ==
    {<<nameA, nameB>>, <<nameB, nameA>>, <<nameA, nameAB>>, <<nameA, nameA_B>>,
     <<nameA_B, nameA>>, <<nameC, nameA, nameB>>}

\* 'A -> B | 0.1*A'
GText1 == <<"A", " ", "-", ">", " ", "B", " ", "|", " ", "0", ".", "1", "*", "A">>
\* '-> A | kA*AB': no source, and the tokens kA and AB hold the name A
GText2 == <<"-", ">", " ", "A", " ", "|", " ", "k", "A", "*", "A", "B">>
\* 'A + Z -> B | k1*A*B': Z is no entity
GText3 == <<"A", " ", "+", " ", "Z", " ", "-", ">", " ", "B", " ", "|", " ", "k", "1", "*", "A", "*", "B">>
\* 'B -> | k1*B': no destination
GText4 == <<"B", " ", "-", ">", " ", "|", " ", "k", "1", "*", "B">>
\* 'A.B -> A | k1*A.B'
GText5 == <<"A", ".", "B", " ", "-", ">", " ", "A", " ", "|", " ", "k", "1", "*", "A", ".", "B">>
GenTexts == {GText1, GText2, GText3, GText4, GText5}

\* specifications whose names meet after '.' is turned into '_', whose
\* reaction is in both flux maps of an entity, and whose entity has the name
\* of the state vector or of a number
nameA_u_B == <<"A", "_", "B">>
nameY == <<"y">>
name0 == <<"0">>
\* 'A + B -> A | k1*A*B': A is source and destination
GText6 == <<"A", " ", "+", " ", "B", " ", "-", ">", " ", "A", " ", "|", " ", "k", "1", "*", "A", "*", "B">>
\* 'A -> y | k1*A*y'
GText7 == <<"A", " ", "-", ">", " ", "y", " ", "|", " ", "k", "1", "*", "A", "*", "y">>
\* 'A -> 0 | k1*A'
GText8 == <<"A", " ", "-", ">", " ", "0", " ", "|", " ", "k", "1", "*", "A">>
NameCases ==
    {[objects |-> <<nameA, nameB>>,
      reactions |-> <<Entry(<<"r", ".", "1">>, GText1), Entry(<<"r", "_", "1">>, GText3)>>],
     [objects |-> <<nameA, nameB>>, reactions |-> <<Entry(<<"r", "1">>, GText6)>>],
     [objects |-> <<nameA_B, nameA_u_B>>, reactions |-> <<Entry(<<"r", "1">>, GText5)>>],
     [objects |-> <<nameA_u_B, nameA_B>>, reactions |-> <<Entry(<<"r", "1">>, GText5)>>],
     [objects |-> <<nameA, nameY>>, reactions |-> <<Entry(<<"r", "1">>, GText7)>>],
     [objects |-> <<nameY, nameA>>, reactions |-> <<Entry(<<"r", "1">>, GText7)>>],
     [objects |-> <<nameA, name0>>, reactions |-> <<Entry(<<"r", "1">>, GText8)>>]}

\* the Reactions stanzas r1, r2, ... of at most maxlen of the texts
GenReactions(maxlen) ==
    {[j \in 1..Len(t) |-> Entry(<<"r">> \o Str(j), t[j])] :
        t \in UNION {[1..l -> GenTexts] : l \in 0..maxlen}}

\* a specification with the objects and the reactions; the first object has
\* an Initials entry
MakeGenSpec(objects, rxns) ==
    [Identifiers |-> <<Entry(<<"n", "a", "m", "e">>, <<"m", "1">>)>>,
     Objects |-> [i \in 1..Len(objects) |-> Entry(objects[i], <<"d">> \o Str(i))],
     Initials |-> <<Entry(objects[1], <<"1", "0">>)>>,
     Variables |-> <<Entry(<<"k", "1">>, <<"0", ".", "1">>)>>,
     Reactions |-> rxns]

\* the pairs (threshold, reset value) of a boundary, in units of 0.0001: the
\* defaults 0;0 and 1e-3;1e-3, and 1;2 and 10;9
BoundChoices == {<<<<0, 0>>, <<10, 10>>>>, <<<<10000, 20000>>, <<100000, 90000>>>>}

\* a solver name print_Setup has no block for
UnknownSolver == "LSODA"

\* what the commands are given: "ode" - genODE with the default solver on any
\* specification; "names" - the same on the specifications of NameCases;
\* "solver" - genODE with any solver and boundaries on one specification;
\* "net" - genNetwork on one or two specifications
GenInputs ==
    {[command |-> "genODE", specs |-> <<MakeGenSpec(o, r)>>, solver |-> "RK4",
      bounds |-> <<<<0, 0>>, <<10, 10>>>>, outfmt |-> "SIF"] :
        o \in GenObjects, r \in GenReactions(GenMaxRxn)}
    \cup
    {[command |-> "genODE", specs |-> <<MakeGenSpec(c.objects, c.reactions)>>, solver |-> "RK4",
      bounds |-> <<<<0, 0>>, <<10, 10>>>>, outfmt |-> "SIF"] : c \in NameCases}
    \cup
    {[command |-> "genODE",
      specs |-> <<MakeGenSpec(<<nameA, nameB>>, <<Entry(<<"r", "1">>, GText1)>>)>>,
      solver |-> sv, bounds |-> b, outfmt |-> "SIF"] :
        sv \in {Solvers[i] : i \in 1..Len(Solvers)} \cup {UnknownSolver},
        b \in BoundChoices}
    \cup
    {[command |-> "genNetwork", specs |-> sp, solver |-> "RK4",
      bounds |-> <<<<0, 0>>, <<10, 10>>>>, outfmt |-> f] :
        sp \in {<<MakeGenSpec(<<nameA, nameB>>, r)>> : r \in GenReactions(GenMaxRxn)}
               \cup {<<MakeGenSpec(<<nameA, nameB>>, r1), MakeGenSpec(<<nameB, nameC>>, r2)>> :
                        r1 \in GenReactions(GenMaxRxn), r2 \in GenReactions(1)},
        f \in {"SIF", "GML"}}

\* no merge runs
MergeIdle ==
    /\ modelobjList0 = <<>>
    /\ heap0 = <<>>
    /\ p_specList = TRUE
    /\ p_modelobjList = TRUE
    /\ count = 1
    /\ table = <<>>
    /\ index = 1
    /\ objectNames = <<>>
    /\ merged_spec = 0
    /\ merged_modelobj = 0

GenInit ==
    \E in \in GenInputs :
        /\ specList0 = in.specs
        /\ specList = in.specs
        /\ modelobjList = <<>>
        /\ heap = <<>>
        /\ MergeIdle
        /\ ReadIdle
        /\ ToolIdle
        /\ error = "ok"
        /\ pc = "modelReader"
        /\ command = in.command
        /\ solver = in.solver
        /\ lowerbound = in.bounds[1]
        /\ upperbound = in.bounds[2]
        /\ outfmt = in.outfmt
        /\ reactionTables = <<>>
        /\ objTable = <<>>
        /\ ODEList = <<>>
        /\ ODESetup = <<>>
        /\ reactionList = <<>>
        /\ datalist = <<>>
        /\ y = <<>>
        /\ steps = 0

\* modelReader for every model file: process_asm_model builds the entity table
\* of the specification from its reaction table
GenRead ==
    /\ pc = "modelReader"
    /\ \E r \in {LoadAllFrom(specList, 1, <<>>, heap)} :
          /\ modelobjList' = r.modelobjList
          /\ heap' = r.heap
          /\ warnings' = LoadAllWarnings(specList, r.modelobjList, 1)
    /\ reactionTables' = [i \in 1..Len(specList) |-> process_reactions_1(specList[i])]
    /\ pc' = IF command = "genODE" THEN "generate_object_table"
                                   ELSE "generateNetworkMap"
    /\ UNCHANGED <<mergevars, readvars, parsevars, samplevars, sensvars, specList, error, command,
                   solver, lowerbound, upperbound, outfmt, objTable, ODEList, ODESetup,
                   reactionList, datalist, y, steps>>

\* generate_ODE: objTable = generate_object_table(modelobj)
GenObjectTable ==
    /\ pc = "generate_object_table"
    /\ objTable' = generate_object_table(modelobjList[1])
    /\ pc' = "substitute_rateEq"
    /\ UNCHANGED <<mergevars, readvars, toolvars, specList, modelobjList, heap, error, command, solver,
                   lowerbound, upperbound, outfmt, reactionTables, ODEList, ODESetup,
                   reactionList, datalist, y, steps>>

\* generate_ODE: modelobj = substitute_rateEq(modelobj, objTable)
GenSubstitute ==
    /\ pc = "substitute_rateEq"
    /\ heap' = substitute_rateEq(modelobjList[1], objTable, heap)
    /\ pc' = "print_rateEq"
    /\ UNCHANGED <<mergevars, readvars, toolvars, specList, modelobjList, error, command, solver,
                   lowerbound, upperbound, outfmt, reactionTables, objTable, ODEList,
                   ODESetup, reactionList, datalist, y, steps>>

\* generate_ODE: ODEList = print_rateEq(modelobj)
GenPrintRateEq ==
    /\ pc = "print_rateEq"
    /\ ODEList' = print_rateEq(modelobjList[1], heap)
    /\ pc' = "print_Setup"
    /\ UNCHANGED <<mergevars, readvars, toolvars, specList, modelobjList, heap, error, command, solver,
                   lowerbound, upperbound, outfmt, reactionTables, objTable, ODESetup,
                   reactionList, datalist, y, steps>>

\* generate_ODE: ODESetup = print_Setup(...), with the default timestep and
\* endtime; the lines are returned and fileWriter writes them
GenPrintSetup ==
    /\ pc = "print_Setup"
    /\ ODESetup' = print_Setup(modelobjList[1], objTable, solver, 1, 21600,
                               lowerbound, upperbound, heap)
    /\ pc' = "written"
    /\ UNCHANGED <<mergevars, readvars, toolvars, specList, modelobjList, heap, error, command, solver,
                   lowerbound, upperbound, outfmt, reactionTables, objTable, ODEList,
                   reactionList, datalist, y, steps>>

\* generateNetworkMap(specList, outfmt): datalist is bound for 'SIF' only
GenNetwork ==
    /\ pc = "generateNetworkMap"
    /\ \E rl \in {processReactions(extractReactions(specList))} :
          /\ reactionList' = rl
          /\ IF outfmt = "SIF"
             THEN /\ datalist' = generateSIF(rl)
                  /\ error' = "ok"
                  /\ pc' = "written"
             ELSE /\ datalist' = <<>>
                  /\ error' = "UnboundLocalError"
                  /\ pc' = "raised"
    /\ UNCHANGED <<mergevars, readvars, toolvars, specList, modelobjList, heap, command, solver,
                   lowerbound, upperbound, outfmt, reactionTables, objTable, ODEList,
                   ODESetup, y, steps>>

\* the values a solver step may leave in a slot, in units of 0.0001:
\* -0.5, 2e-3, 0.0005, 1.5 and 20
StepValues == <<-5000, 20, 5, 15000, 200000>>

StepVectors(n) ==
    {[i \in 1..n |-> StepValues[((j + i - 2) % Len(StepValues)) + 1]] :
        j \in 1..Len(StepValues)}

\* the driver's boundary policy on one value: below the threshold of the lower
\* entry of its slot it becomes that entry's reset value, above the threshold
\* of the upper entry it becomes that entry's reset value
BoundaryChecker(value, slot, lower, upper) ==
    \* a slot without an entry is left alone
    IF Has(lower, Str(slot)) /\ value < Get(lower, Str(slot))[1]
    THEN Get(lower, Str(slot))[2]
    ELSE IF Has(upper, Str(slot)) /\ value > Get(upper, Str(slot))[1]
         THEN Get(upper, Str(slot))[2]
         ELSE value

\* the written program runs one step of the solver it names: model(...) is
\* called with the tables lowerbound and upperbound of the program
Advance ==
    /\ pc = "written"
    /\ command = "genODE"
    /\ SolverBlocks(solver) # <<>>
    /\ steps < MaxSteps
    /\ \E v \in StepVectors(Len(ODESetup.y)) : y' = v
    /\ pc' = "boundary"
    /\ UNCHANGED <<mergevars, readvars, toolvars, specList, modelobjList, heap, error, command, solver,
                   lowerbound, upperbound, outfmt, reactionTables, objTable, ODEList,
                   ODESetup, reactionList, datalist, steps>>

\* after the step, the boundary policy is applied to every slot
Boundary ==
    /\ pc = "boundary"
    /\ y' = [i \in 1..Len(y) |->
                BoundaryChecker(y[i], i - 1, ODESetup.lowerbound, ODESetup.upperbound)]
    /\ steps' = steps + 1
    /\ pc' = "written"
    /\ UNCHANGED <<mergevars, readvars, toolvars, specList, modelobjList, heap, error, command, solver,
                   lowerbound, upperbound, outfmt, reactionTables, objTable, ODEList,
                   ODESetup, reactionList, datalist>>

GenNext ==
    \/ GenRead
    \/ GenObjectTable
    \/ GenSubstitute
    \/ GenPrintRateEq
    \/ GenPrintSetup
    \/ GenNetwork
    \/ Advance
    \/ Boundary

GenSpec == GenInit /\ [][GenNext]_vars

(***************************************************************************)
(* SpecLoader: modelspec_reader of model_access.py, the ConfigParser it    *)
(* builds reading the lines of the model file.                             *)
(***************************************************************************)
MaxLines == 3

\* ConfigParser(allow_no_value=True, ...)
no_value_refused == FALSE
allow_no_value == TRUE

\* delimiters=('=', ':')
delimiters == {"=", ":"}

\* comment_prefixes=('#', ';') and inline_comment_prefixes=('#', ';')
comment_prefixes == {"#", ";"}

\* the lines of the files: '[Objects]', '[R]', 'A = a', 'B : b', 'C', '= v',
\* '  x y', '# c' and the empty line
ReadLineKinds ==
    {<<"[", "O", "b", "j", "e", "c", "t", "s", "]">>,
     <<"[", "R", "]">>,
     <<"A", " ", "=", " ", "a">>,
     <<"B", " ", ":", " ", "b">>,
     <<"C">>,
     <<"=", " ", "v">>,
     <<" ", " ", "x", " ", "y">>,
     <<"#", " ", "c">>,
     <<>>}

ModelFiles == UNION {[1..l -> ReadLineKinds] : l \in 1..MaxLines}

\* the place of the comment of the line: 1 for a line that is only a comment,
\* the place of the first prefix that follows a space, 0 for no comment
CommentStart(line) ==
    IF LStrip(line) # <<>> /\ Head(LStrip(line)) \in comment_prefixes THEN 1
    ELSE LET starts == {i \in 2..Len(line) :
                           line[i] \in comment_prefixes /\ line[i - 1] \in Whitespace}
         IN IF starts = {} THEN 0
            ELSE CHOOSE i \in starts : \A j \in starts : i <= j

\* value = line[:comment_start].strip()
ValueOf(line) ==
    Strip(IF CommentStart(line) = 0 THEN line
          ELSE SubSeq(line, 1, CommentStart(line) - 1))

\* cur_indent_level: the place of the first character that is no space
IndentOf(line) == Len(line) - Len(LStrip(line))

\* SECTCRE: '[', at least one character, ']'
IsHeader(value) == value[1] = "[" /\ \E i \in 3..Len(value) : value[i] = "]"
HeaderOf(value) ==
    SubSeq(value, 2,
           (CHOOSE i \in 3..Len(value) :
               value[i] = "]" /\ \A j \in (i + 1)..Len(value) : value[j] # "]") - 1)

\* the place of the first delimiter of the value, 0 for none
DelimiterAt(value) ==
    IF \E i \in 1..Len(value) : value[i] \in delimiters
    THEN CHOOSE i \in 1..Len(value) :
            value[i] \in delimiters /\ \A j \in 1..(i - 1) : value[j] \notin delimiters
    ELSE 0

\* the groups 'option' and 'value' of the option pattern
OptionOf(value) ==
    IF DelimiterAt(value) = 0 THEN value
    ELSE RStrip(SubSeq(value, 1, DelimiterAt(value) - 1))
OptvalOf(value) == Strip(SubSeq(value, DelimiterAt(value) + 1, Len(value)))

\* the value of an entry while the file is read: the list of its lines
ListVal(lines) == [t |-> "list", l |-> lines]

\* 'optname' is true: it is a key, and not the empty one
Truthy(name) == name # NoneVal /\ name.s # <<>>

\* cursect[optname] = val
SetOption(secs, sect, key, val) == SetItem(secs, sect, SetItem(Get(secs, sect), key, val))

\* the option line: the key and its value are stored; a line without a key is
\* an error kept for the end, and so is a line without a delimiter when no
\* value may be missing
ReadOption(line, value, st) ==
    IF DelimiterAt(value) = 0 /\ ~allow_no_value
    THEN [st EXCEPT !.indent_level = IndentOf(line), !.exc = TRUE]
    ELSE [st EXCEPT !.indent_level = IndentOf(line),
                    !.exc = @ \/ OptionOf(value) = <<>>,
                    !.optname = StrVal(OptionOf(value)),
                    !.sections = SetOption(@, st.cursect.s, OptionOf(value),
                                     IF DelimiterAt(value) = 0 THEN NoneVal
                                     ELSE ListVal(<<OptvalOf(value)>>))]

\* the body of the loop over the lines of the file
ReadOne(line, value, st) ==
    IF value = <<>>
    THEN IF /\ CommentStart(line) = 0
            /\ st.cursect # NoneVal
            /\ Truthy(st.optname)
            /\ Get(Get(st.sections, st.cursect.s), st.optname.s) # NoneVal
         THEN [st EXCEPT !.sections =
                  SetOption(@, st.cursect.s, st.optname.s,
                      ListVal(Append(Get(Get(@, st.cursect.s), st.optname.s).l, <<>>)))]
         ELSE st
    ELSE IF st.cursect # NoneVal /\ Truthy(st.optname) /\ IndentOf(line) > st.indent_level
    THEN \* cursect[optname].append(value)
         IF Get(Get(st.sections, st.cursect.s), st.optname.s) = NoneVal
         THEN [st EXCEPT !.error = "AttributeError"]
         ELSE [st EXCEPT !.sections =
                  SetOption(@, st.cursect.s, st.optname.s,
                      ListVal(Append(Get(Get(@, st.cursect.s), st.optname.s).l, value)))]
    ELSE IF IsHeader(value)
    THEN [st EXCEPT !.indent_level = IndentOf(line),
                    !.cursect = StrVal(HeaderOf(value)),
                    !.sections = IF Has(@, HeaderOf(value)) THEN @
                                 ELSE Append(@, Entry(HeaderOf(value), <<>>)),
                    !.optname = NoneVal]
    ELSE IF st.cursect = NoneVal
    THEN [st EXCEPT !.indent_level = IndentOf(line),
                    !.error = "MissingSectionHeaderError"]
    ELSE ReadOption(line, value, st)

RECURSIVE RStripLines(_)
\* str.rstrip() of the joined lines
RStripLines(s) ==
    IF s # <<>> /\ s[Len(s)] \in Whitespace \cup {"\n"}
    THEN RStripLines(SubSeq(s, 1, Len(s) - 1)) ELSE s

\* _join_multiline_values: '\n'.join(val).rstrip() for every value that is a list
JoinValue(val) == IF val = NoneVal THEN val ELSE StrVal(RStripLines(Join(<<"\n">>, val.l)))
JoinMultilineValues(secs) ==
    [i \in 1..Len(secs) |->
        Entry(secs[i].k, [j \in 1..Len(secs[i].v) |->
                             Entry(secs[i].v[j].k, JoinValue(secs[i].v[j].v))])]

ReadInit ==
    /\ modelspec \in ModelFiles
    /\ lineno = 0
    /\ cursect = NoneVal
    /\ optname = NoneVal
    /\ indent_level = 0
    /\ sections = <<>>
    /\ exc = FALSE
    /\ specList0 = <<>>
    /\ specList = <<>>
    /\ modelobjList = <<>>
    /\ heap = <<>>
    /\ MergeIdle
    /\ GenIdle
    /\ ToolIdle
    /\ error = "ok"
    /\ pc = "read_string"

\* spec.read_string(modelspec): the next line of the file
ReadLine ==
    /\ pc = "read_string"
    /\ lineno < Len(modelspec)
    /\ lineno' = lineno + 1
    /\ \E r \in {ReadOne(modelspec[lineno + 1], ValueOf(modelspec[lineno + 1]),
                         [cursect |-> cursect, optname |-> optname,
                          indent_level |-> indent_level, sections |-> sections,
                          exc |-> exc, error |-> "ok"])} :
          /\ cursect' = r.cursect
          /\ optname' = r.optname
          /\ indent_level' = r.indent_level
          /\ sections' = r.sections
          /\ exc' = r.exc
          /\ error' = r.error
          /\ pc' = IF r.error = "ok" THEN "read_string" ELSE "raised"
    /\ UNCHANGED <<mergevars, genvars, toolvars, specList, modelobjList, heap, modelspec>>

\* the end of the file: the values are joined, the parsing errors are raised,
\* and modelspec_reader returns spec
ReadEnd ==
    /\ pc = "read_string"
    /\ lineno = Len(modelspec)
    /\ sections' = JoinMultilineValues(sections)
    /\ error' = IF exc THEN "ParsingError" ELSE "ok"
    /\ pc' = IF exc THEN "raised" ELSE "returned"
    /\ UNCHANGED <<mergevars, genvars, toolvars, specList, modelobjList, heap, modelspec, lineno,
                   cursect, optname, indent_level, exc>>

ReadNext == ReadLine \/ ReadEnd

ReadSpec == ReadInit /\ [][ReadNext]_vars

(***************************************************************************)
(* interface_cameo.py: _parse_mutation and _parse_medium_change.           *)
(***************************************************************************)
MaxEntries == 2

\* the entries of a mutation string: well-formed ones, and entries with two
\* fields, one field, no text, four fields and a bound that is no integer
MutationEntries ==
    {<<"R", "1", ",", "0", ",", "0">>,
     <<"P", "2", ",", "1", "0", ",", "-", "1">>,
     <<"R", "1", ",", "1", ",", "2">>,
     <<" ", "P", "2", " ", ",", " ", "1", " ", ",", " ", "0", " ">>,
     <<"R", "1", ",", "0">>,
     <<"R", "1">>,
     <<>>,
     <<"R", "1", ",", "0", ",", "0", ",", "3">>,
     <<"R", "1", ",", "x", ",", "0">>,
     <<"P", "2", ",", "0", ",", "1", ".", "5">>}

\* the entries of a medium change string: well-formed ones (one as the text of
\* a tuple), and entries with one field, no text, three fields and a value
\* that is no number
ChangeEntries ==
    {<<"E", "1", ",", "0">>,
     <<"G", "2", ",", "1", ".", "5">>,
     <<"(", "'", "E", "1", "'", ",", " ", "0", ")">>,
     <<" ", "G", "2", " ", ",", " ", "0", " ">>,
     <<"E", "1">>,
     <<>>,
     <<"E", "1", ",", "1", ",", "2">>,
     <<"E", "1", ",", "x">>}

\* the strings of 1..MaxEntries entries, delimited by ';'
Definitions(entries) ==
    {Join(<<";">>, q) : q \in UNION {[1..l -> entries] : l \in 1..MaxEntries}}

Digits == {DigitChars[i] : i \in 1..Len(DigitChars)}
DigitValue(c) == (CHOOSE i \in 1..Len(DigitChars) : DigitChars[i] = c) - 1

RECURSIVE NatOf(_)
\* the number written by the digits
NatOf(ds) == IF ds = <<>> THEN 0 ELSE 10 * NatOf(SubSeq(ds, 1, Len(ds) - 1)) + DigitValue(ds[Len(ds)])

\* the text without its sign
Unsigned(s) == IF s # <<>> /\ s[1] \in {"+", "-"} THEN Tail(s) ELSE s
SignOf(s) == IF s # <<>> /\ s[1] = "-" THEN -1 ELSE 1

\* int(s) raises ValueError unless s is digits after an optional sign
IsInt(s) == Unsigned(s) # <<>> /\ \A i \in 1..Len(Unsigned(s)) : Unsigned(s)[i] \in Digits
IntOf(s) == SignOf(s) * NatOf(Unsigned(s))

\* float(s) raises ValueError unless s is, after an optional sign, digits with
\* at most one point and at least one digit
IsFloat(s) ==
    /\ \A i \in 1..Len(Unsigned(s)) : Unsigned(s)[i] \in Digits \cup {"."}
    /\ Cardinality({i \in 1..Len(Unsigned(s)) : Unsigned(s)[i] = "."}) <= 1
    /\ \E i \in 1..Len(Unsigned(s)) : Unsigned(s)[i] \in Digits

RECURSIVE DropZeros(_)
DropZeros(ds) == IF ds # <<>> /\ ds[Len(ds)] = "0" THEN DropZeros(SubSeq(ds, 1, Len(ds) - 1)) ELSE ds

\* the value of float(s): mant / 10^scale, scale as small as can be
FloatOf(s) ==
    LET parts == Split(Unsigned(s), <<".">>)
        frac == IF Len(parts) = 2 THEN DropZeros(parts[2]) ELSE <<>>
    IN [mant |-> SignOf(s) * NatOf(parts[1] \o frac), scale |-> Len(frac)]

\* pair.split(',')[n] for every n below the number of fields that are read
HasFields(pair, n) == Len(Split(pair, <<",">>)) >= n
FieldsRead(pair, n) == [i \in 1..n |-> Strip(Split(pair, <<",">>)[i])]

\* [pair.strip() for pair in mutation.split(';')]
Pairs(text) == StripAll(Split(text, <<";">>))

RECURSIVE MutationDict(_, _, _)
\* 'for k in mutation: ndict[str(k[0])] = (int(k[1]), int(k[2]))'
MutationDict(pairs, i, d) ==
    IF i > Len(pairs) THEN [error |-> "ok", ndict |-> d]
    ELSE LET k == FieldsRead(pairs[i], 3)
         IN IF ~IsInt(k[2]) \/ ~IsInt(k[3]) THEN [error |-> "ValueError", ndict |-> <<>>]
            ELSE MutationDict(pairs, i + 1, SetItem(d, k[1], <<IntOf(k[2]), IntOf(k[3])>>))

\* the dictionary of the mutations, or the exception raised
parse_mutation(mutation) ==
    IF \E i \in 1..Len(Pairs(mutation)) : ~HasFields(Pairs(mutation)[i], 3)
    THEN [error |-> "IndexError", ndict |-> <<>>]
    ELSE MutationDict(Pairs(mutation), 1, <<>>)

\* the extra start characters "('", "(" and "'" are taken off
StartStripped(s) ==
    IF Len(s) >= 2 /\ SubSeq(s, 1, 2) = <<"(", "'">> THEN SubSeq(s, 3, Len(s))
    ELSE IF s # <<>> /\ s[1] \in {"(", "'"} THEN Tail(s)
    ELSE s

\* the extra end characters "')", ")" and "'" are taken off
EndStripped(s) ==
    IF Len(s) >= 2 /\ SubSeq(s, Len(s) - 1, Len(s)) = <<"'", ")">> THEN SubSeq(s, 1, Len(s) - 2)
    ELSE IF s # <<>> /\ s[Len(s)] \in {")", "'"} THEN SubSeq(s, 1, Len(s) - 1)
    ELSE s

RECURSIVE ChangeDict(_, _, _)
\* 'for k in change: ... ndict[key] = float(value)'
ChangeDict(pairs, i, d) ==
    IF i > Len(pairs) THEN [error |-> "ok", ndict |-> d]
    ELSE LET k == FieldsRead(pairs[i], 2)
             key == EndStripped(StartStripped(k[1]))
             value == EndStripped(StartStripped(k[2]))
         IN IF ~IsFloat(value) THEN [error |-> "ValueError", ndict |-> <<>>]
            ELSE ChangeDict(pairs, i + 1, SetItem(d, key, FloatOf(value)))

\* the dictionary of the medium changes, or the exception raised
parse_medium_change(change) ==
    IF \E i \in 1..Len(Pairs(change)) : ~HasFields(Pairs(change)[i], 2)
    THEN [error |-> "IndexError", ndict |-> <<>>]
    ELSE ChangeDict(Pairs(change), 1, <<>>)

ParseInit ==
    /\ \/ parser = "_parse_mutation" /\ argument \in Definitions(MutationEntries)
       \/ parser = "_parse_medium_change" /\ argument \in Definitions(ChangeEntries)
    /\ ndict = <<>>
    /\ SampleIdle
    /\ PrintIdle
    /\ SensIdle
    /\ specList0 = <<>>
    /\ specList = <<>>
    /\ modelobjList = <<>>
    /\ heap = <<>>
    /\ MergeIdle
    /\ GenIdle
    /\ ReadIdle
    /\ error = "ok"
    /\ pc = "parse"

\* mutation = _parse_mutation(mutation)
ParseMutation ==
    /\ pc = "parse"
    /\ parser = "_parse_mutation"
    /\ \E r \in {parse_mutation(argument)} :
          /\ ndict' = r.ndict
          /\ error' = r.error
          /\ pc' = IF r.error = "ok" THEN "returned" ELSE "raised"
    /\ UNCHANGED <<mergevars, genvars, readvars, samplevars, printvars, sensvars, specList, modelobjList, heap,
                   parser, argument>>

\* change = _parse_medium_change(change)
ParseMediumChange ==
    /\ pc = "parse"
    /\ parser = "_parse_medium_change"
    /\ \E r \in {parse_medium_change(argument)} :
          /\ ndict' = r.ndict
          /\ error' = r.error
          /\ pc' = IF r.error = "ok" THEN "returned" ELSE "raised"
    /\ UNCHANGED <<mergevars, genvars, readvars, samplevars, printvars, sensvars, specList, modelobjList, heap,
                   parser, argument>>

ParseNext == ParseMutation \/ ParseMediumChange

ParseSpec == ParseInit /\ [][ParseNext]_vars

(***************************************************************************)
(* astools.py: runODEScript writes the sampled rows of a simulation.       *)
(***************************************************************************)
MaxRows == 4
MaxSampling == 3

\* m.labels of the script that is run
ScriptLabels == <<StrVal(<<"t", "i", "m", "e">>), StrVal(<<"A">>)>>

\* the simulations: row d_i holds the time i and a value of the entity
Simulations ==
    UNION {{[i \in 1..l |-> <<IntVal(i - 1), IntVal(v[i])>>] : v \in [1..l -> {0, 7}]} : l \in 1..MaxRows}

\* [str(x) for x in data]
StrAll(row) == [i \in 1..Len(row) |-> IF row[i].t = "str" THEN row[i] ELSE StrVal(Str(row[i].n))]

\* ','.join(data), the line without its line end
CsvLine(row) == Join(<<",">>, [i \in 1..Len(row) |-> row[i].s])

\* the row with index n is written: 'if count % sampling == 0'
Sampled(n, s) == n % s = 0

SampleInit ==
    /\ model \in Simulations
    /\ sampling \in 1..MaxSampling
    /\ rowCount = 0
    /\ data = <<>>
    /\ resultfile = <<>>
    /\ ParseIdle
    /\ PrintIdle
    /\ SensIdle
    /\ specList0 = <<>>
    /\ specList = <<>>
    /\ modelobjList = <<>>
    /\ heap = <<>>
    /\ MergeIdle
    /\ GenIdle
    /\ ReadIdle
    /\ error = "ok"
    /\ pc = "runODE"

\* resultfile.write(','.join(m.labels) + '\n'); sampling = int(sampling); count = 0
SampleHeader ==
    /\ pc = "runODE"
    /\ resultfile' = <<CsvLine(ScriptLabels)>>
    /\ rowCount' = 0
    /\ pc' = "rows"
    /\ UNCHANGED <<mergevars, genvars, readvars, parsevars, printvars, sensvars, specList, modelobjList, heap,
                   model, sampling, data, error>>

\* one turn of 'for data in m.model'
SampleRow ==
    /\ pc = "rows"
    /\ rowCount < Len(model)
    /\ IF Sampled(rowCount, sampling)
       THEN /\ data' = StrAll(model[rowCount + 1])
            /\ resultfile' = Append(resultfile, CsvLine(data'))
       ELSE /\ data' = model[rowCount + 1]
            /\ UNCHANGED resultfile
    /\ rowCount' = rowCount + 1
    /\ UNCHANGED <<mergevars, genvars, readvars, parsevars, printvars, sensvars, specList, modelobjList, heap,
                   model, sampling, error, pc>>

\* after the loop: the latest row is written, resultfile.close()
SampleLast ==
    /\ pc = "rows"
    /\ rowCount = Len(model)
    /\ data' = StrAll(data)
    /\ resultfile' = Append(resultfile, CsvLine(data'))
    /\ pc' = "closed"
    /\ UNCHANGED <<mergevars, genvars, readvars, parsevars, printvars, sensvars, specList, modelobjList, heap,
                   model, sampling, rowCount, error>>

SampleNext == SampleHeader \/ SampleRow \/ SampleLast

SampleSpec == SampleInit /\ [][SampleNext]_vars

(***************************************************************************)
(* astools.py: sensitivityGenerator writes one specification per variable. *)
(***************************************************************************)
MaxVars == 2

\* the keys of Variables; 'original' is the key sensitivityGenerator gives
\* the baseline in its table and in its file names
VariableNames == {<<"k", "1">>, <<"k", "2">>, <<"o", "r", "i", "g", "i", "n", "a", "l">>}

\* the values of Variables as the model file has them: numbers whose products
\* with the multiples are exact in floating point
VariableTexts == {<<"0", ".", "5">>, <<"2">>, <<"1", ".", "0">>}
Multiples == {2, 100}

\* the Variables stanzas: 1..MaxVars keys, no key twice, in any order
VariableStanzas ==
    UNION {{[i \in 1..l |-> Entry(ks[i], vs[i])] : vs \in [1..l -> VariableTexts],
            ks \in {q \in [1..l -> VariableNames] : \A a, b \in 1..l : q[a] = q[b] => a = b}} :
           l \in 1..MaxVars}

RECURSIVE Pow10(_)
Pow10(n) == IF n = 0 THEN 1 ELSE 10 * Pow10(n - 1)

RECURSIVE Reduced(_)
\* the number with its scale as small as can be
Reduced(v) ==
    IF v.scale > 0 /\ v.mant % 10 = 0 THEN Reduced([mant |-> v.mant \div 10, scale |-> v.scale - 1])
    ELSE v

\* original_parameter * multiple
Times(v, m) == Reduced([mant |-> v.mant * m, scale |-> v.scale])

RECURSIVE Padded(_, _)
Padded(ds, n) == IF Len(ds) >= n THEN ds ELSE Padded(<<"0">> \o ds, n)

\* str() of a float that is not negative and is written without exponent:
\* the digits before the point, the point, and the digits after it, '0'
\* when there are none
StrFloat(v) ==
    Str(v.mant \div Pow10(v.scale)) \o <<".">>
        \o (IF v.scale = 0 THEN <<"0">> ELSE Padded(Str(v.mant % Pow10(v.scale)), v.scale))

\* 'models/temp/%s.%s.modelspec' % (filepath, param), for the model file m
FilePath(name) == <<"m", "o", "d", "e", "l", "s", "/", "t", "e", "m", "p", "/", "m", ".">> \o name \o <<".", "m", "o", "d", "e", "l", "s", "p", "e", "c">>

\* '%s --> %s' % (str(original_parameter), str(new_parameter))
Change(original_parameter, new_parameter) ==
    original_parameter \o <<" ", "-", "-", ">", " ">> \o new_parameter

SensInit ==
    /\ bspec0 \in VariableStanzas
    /\ bspec = bspec0
    /\ multiple \in Multiples
    /\ param = 0
    /\ gModelSpecFiles = <<>>
    /\ tModelFile = <<>>
    /\ ParseIdle
    /\ SampleIdle
    /\ PrintIdle
    /\ specList0 = <<>>
    /\ specList = <<>>
    /\ modelobjList = <<>>
    /\ heap = <<>>
    /\ MergeIdle
    /\ GenIdle
    /\ ReadIdle
    /\ error = "ok"
    /\ pc = "senGen"

\* Step 1: the baseline is written out and entered in the table
SensOriginal ==
    /\ pc = "senGen"
    /\ tModelFile' = SetItem(tModelFile, FilePath(<<"o", "r", "i", "g", "i", "n", "a", "l">>), bspec)
    /\ gModelSpecFiles' = SetItem(gModelSpecFiles, <<"o", "r", "i", "g", "i", "n", "a", "l">>,
                                  [ASM |-> FilePath(<<"o", "r", "i", "g", "i", "n", "a", "l">>), Change |-> <<"N", "o", "n", "e">>])
    /\ param' = 1
    /\ pc' = "Variables"
    /\ UNCHANGED <<mergevars, genvars, readvars, parsevars, samplevars, printvars, specList,
                   modelobjList, heap, bspec, bspec0, multiple, error>>

\* Step 2: one turn of 'for param in bspec['Variables']'
SensParam ==
    /\ pc = "Variables"
    /\ param <= Len(bspec)
    /\ \E name \in {bspec[param].k} :
       \E original_parameter \in {FloatOf(bspec[param].v)} :
       \E new_parameter \in {StrFloat(Times(original_parameter, multiple))} :
          /\ tModelFile' = SetItem(tModelFile, FilePath(name), SetItem(bspec, name, new_parameter))
          /\ gModelSpecFiles' =
                 SetItem(gModelSpecFiles, name,
                         [ASM |-> FilePath(name),
                          Change |-> Change(StrFloat(original_parameter), new_parameter)])
          /\ bspec' = SetItem(bspec, name, StrFloat(original_parameter))
    /\ param' = param + 1
    /\ UNCHANGED <<mergevars, genvars, readvars, parsevars, samplevars, printvars, specList,
                   modelobjList, heap, bspec0, multiple, error, pc>>

\* return gModelSpecFiles
SensReturn ==
    /\ pc = "Variables"
    /\ param > Len(bspec)
    /\ pc' = "returned"
    /\ UNCHANGED <<mergevars, genvars, readvars, parsevars, samplevars, printvars, specList,
                   modelobjList, heap, sensvars, error>>

SensNext == SensOriginal \/ SensParam \/ SensReturn

SensSpec == SensInit /\ [][SensNext]_vars

(***************************************************************************)
(* Notions the properties are stated with.                                 *)
(***************************************************************************)
\* the number of reactions specification i declared
NumRxn(i) == Len(specList0[i].Reactions)

RECURSIVE RxnBefore(_)
\* the number of reactions of the specifications before specification i
RxnBefore(i) == IF i <= 1 THEN 0 ELSE RxnBefore(i - 1) + NumRxn(i - 1)

TotalNumRxn == RxnBefore(N + 1)

\* the specifications _renumberReactions has been called for
Renamed == IF pc = "load" THEN 0 ELSE IF pc = "rename" THEN index - 1 ELSE N

\* the id begins with the prefix of the merge
UsesPrefix(id) == Len(id) >= Len(Prefix) /\ SubSeq(id, 1, Len(Prefix)) = Prefix

\* no reaction id of specification i, as it was read, begins with the prefix
PlainIds(i) == \A j \in 1..NumRxn(i) : ~UsesPrefix(specList0[i].Reactions[j].k)

\* the id the j-th reaction of specification i is to get
RenumberedID(i, j) == Prefix \o Str(RxnBefore(i) + j)

\* how often the value occurs in the dict
CountVal(d, val) == Cardinality({i \in 1..Len(d) : d[i].v = val})

\* the keys of the dict are pairwise distinct
DistinctKeys(d) == \A i, j \in 1..Len(d) : d[i].k = d[j].k => i = j

(***************************************************************************)
(* C1: when _renumberReactions has run for specification i with p_specList *)
(* true, its table maps the j-th reaction id of the specification, in      *)
(* stanza order, to prefix + str(n_1 + ... + n_(i-1) + j) and the counter  *)
(* stands at n_1 + ... + n_i + 1: it starts at 1 and is never reset.  A    *)
(* specification whose ids do not use the prefix then has exactly these    *)
(* ids, in order, with the reaction texts it had.                          *)
(***************************************************************************)
C1_CounterContinues ==
    (p_specList /\ pc \in {"rename", "mergeSpec"} /\ Renamed >= 1) =>
        /\ table = [j \in 1..NumRxn(Renamed) |->
                       Entry(specList0[Renamed].Reactions[j].k,
                             RenumberedID(Renamed, j))]
        /\ count = RxnBefore(Renamed + 1) + 1
        /\ \A i \in 1..Renamed :
               PlainIds(i) =>
                   specList[i].Reactions =
                       [j \in 1..NumRxn(i) |->
                           Entry(RenumberedID(i, j), specList0[i].Reactions[j].v)]

\* two specifications that both declare r1 have exp1 and exp2
C1_Witness ==
    /\ pc = "mergeSpec" /\ p_specList /\ N >= 2
    /\ Keys(specList0[1].Reactions) = << <<"r", "1">> >>
    /\ Has(specList0[2].Reactions, <<"r", "1">>)
    /\ Keys(specList[1].Reactions) = << <<"e", "x", "p", "1">> >>
    /\ Keys(specList[2].Reactions)[1] = <<"e", "x", "p", "2">>

(***************************************************************************)
(* C2: after modelMerge the merged Reactions stanza holds n_1 + ... + n_N  *)
(* entries with distinct ids and every reaction text as often as the       *)
(* specifications declared it.                                             *)
(***************************************************************************)
AllTextsKept(merged) ==
    /\ Len(merged) = TotalNumRxn
    /\ DistinctKeys(merged)
    /\ \A t \in ValueSet(merged) \cup
                UNION {ValueSet(specList0[i].Reactions) : i \in 1..N} :
           CountVal(merged, t) =
               Cardinality({ij \in (1..N) \X (1..MaxTotalRxn) :
                               /\ ij[2] <= NumRxn(ij[1])
                               /\ specList0[ij[1]].Reactions[ij[2]].v = t})

\* C2 as the specification states it, whatever the original ids: the merged
\* Reactions stanza keeps every reaction text of every input under distinct ids
C2_AnyIds ==
    (pc = "done" /\ merged_spec # 0) => AllTextsKept(specList[merged_spec].Reactions)

\* C2 for inputs none of whose ids begins with the prefix: the merged
\* Reactions stanza keeps every reaction text of every input under distinct ids
C2_PlainIds ==
    (pc = "done" /\ merged_spec # 0 /\ \A i \in 1..N : PlainIds(i)) =>
        AllTextsKept(specList[merged_spec].Reactions)

C2_Witness ==
    /\ pc = "done" /\ merged_spec # 0 /\ N >= 2
    /\ \A i \in 1..N : PlainIds(i)
    /\ Has(specList0[1].Reactions, <<"r", "1">>)
    /\ Has(specList0[2].Reactions, <<"r", "1">>)
    /\ TotalNumRxn >= 3
    /\ Len(specList[merged_spec].Reactions) = TotalNumRxn

(***************************************************************************)
(* C3: after renameReactions with both flags true, every influx and        *)
(* outflux key of every entity of a specification is an id of the          *)
(* renumbered Reactions stanza of that specification, the entity has as    *)
(* many influx and outflux entries as before, and the new id of a reaction *)
(* holds the rate law its old id held.                                     *)
(***************************************************************************)
\* the place of the id in the Reactions stanza specification i was read with
RxnPlace(i, id) == CHOOSE j \in 1..NumRxn(i) : specList0[i].Reactions[j].k = id

FluxRenumbered(i, old, new) ==
    /\ KeySet(new) \subseteq KeySet(specList[i].Reactions)
    /\ Len(new) = Len(old)
    /\ \A m \in 1..Len(old) :
           /\ Has(new, RenumberedID(i, RxnPlace(i, old[m].k)))
           /\ Get(new, RenumberedID(i, RxnPlace(i, old[m].k))) = old[m].v

\* heap0 is the heap as GraphBuilder left it
TableRenumbered(i) ==
    \A e \in 1..Len(modelobjList[i]) :
        /\ FluxRenumbered(i, heap0[modelobjList[i][e].v].influx,
                          heap[modelobjList[i][e].v].influx)
        /\ FluxRenumbered(i, heap0[modelobjList[i][e].v].outflux,
                          heap[modelobjList[i][e].v].outflux)

\* C3 as the specification states it, for every specification: the flux keys
\* of its entities are renumbered as its Reactions stanza is, none lost
C3_AnyIds ==
    (p_specList /\ p_modelobjList /\ pc \in {"rename", "mergeSpec"}) =>
        \A i \in 1..Renamed : TableRenumbered(i)

\* C3 for specifications whose ids do not begin with the prefix: the flux
\* keys of its entities are renumbered as its Reactions stanza is, none lost
C3_PlainIds ==
    (p_specList /\ p_modelobjList /\ pc \in {"rename", "mergeSpec"}) =>
        \A i \in 1..Renamed : PlainIds(i) => TableRenumbered(i)

\* the second specification has an entity with a renumbered influx and outflux
C3_Witness ==
    /\ pc = "mergeSpec" /\ p_specList /\ p_modelobjList /\ N >= 2
    /\ PlainIds(1) /\ PlainIds(2) /\ NumRxn(1) >= 1 /\ NumRxn(2) >= 2
    /\ \E e \in 1..Len(modelobjList[2]) :
           /\ Len(heap[modelobjList[2][e].v].influx) >= 1
           /\ UsesPrefix(heap[modelobjList[2][e].v].influx[1].k)
    /\ \E e \in 1..Len(modelobjList[2]) :
           /\ Len(heap[modelobjList[2][e].v].outflux) >= 2
           /\ UsesPrefix(heap[modelobjList[2][e].v].outflux[2].k)

(***************************************************************************)
(* C4: for each of the four combinations of the flags modelMerge completes *)
(* and returns a merged specification exactly when p_specList is true and  *)
(* a merged entity table exactly when p_modelobjList is true.              *)
(***************************************************************************)
C4_FlagsIndependent ==
    /\ pc # "raised"
    /\ pc = "done" => /\ (merged_spec # 0) = p_specList
                      /\ (merged_modelobj # 0) = p_modelobjList


\* ---- C5 ----
\* the entries x of the incoming flux map that the merge added to the entity
AddedEntry(before, after, incoming, x) ==
    /\ ~Has(before, incoming[x].k)
    /\ Has(after, incoming[x].k)
    /\ Get(after, incoming[x].k) = incoming[x].v

\* an expression of identical text is recorded for the entity when entry m
\* comes in: it was there before the merge or an earlier entry added it
RecordedAt(before, after, incoming, m) ==
    \/ incoming[m].v \in ValueSet(before)
    \/ \E x \in 1..(m - 1) : /\ AddedEntry(before, after, incoming, x)
                             /\ incoming[x].v = incoming[m].v

FluxMergedOnce(before, after, incoming) ==
    \A m \in 1..Len(incoming) :
        AddedEntry(before, after, incoming, m) <=> ~RecordedAt(before, after, incoming, m)

MergeObjStepDedups ==
    \A e \in 1..Len(modelobjList[index]) :
        LET name == modelobjList[index][e].k
            nref == modelobjList[index][e].v
        IN IF Has(modelobjList[1], name)
           THEN LET cref == Get(modelobjList[1], name)
                IN /\ FluxMergedOnce(heap[cref].influx, heap'[cref].influx,
                                     heap[nref].influx)
                   /\ FluxMergedOnce(heap[cref].outflux, heap'[cref].outflux,
                                     heap[nref].outflux)
           ELSE /\ Has(modelobjList'[1], name)
                /\ heap'[Get(modelobjList'[1], name)] = heap[nref]

\* C5: in every turn of mergeModelObjects over specifications renumbered from
\* ids that do not use the prefix, for an entity name already in the merged
\* table an incoming influx (outflux) entry is added under its renumbered id if
\* and only if no expression recorded for that entity and direction, before the
\* merge or added earlier in the same merge, has the identical text; an entity
\* name not yet present is inserted wholesale.
C5_SkipsRecorded ==
    [][(MergeObjStep /\ p_specList /\ \A i \in 1..N : PlainIds(i))
           => MergeObjStepDedups]_vars

\* ---- C6 ----
IsCopies == N >= 2 /\ \A i \in 1..N : specList0[i] = specList0[1]

\* C6: merging a specification S, whose ids do not use the prefix, with
\* identical copies of itself yields a merged Reactions stanza of
\* N * |S.Reactions| entries (2 * |S.Reactions| for one copy) with distinct ids,
\* and every entity of the merged table has as many influx and as many outflux
\* entries as in S's own table.
C6_SelfMerge ==
    (pc = "done" /\ p_specList /\ p_modelobjList /\ IsCopies /\ PlainIds(1)) =>
        /\ Len(specList[merged_spec].Reactions) = N * NumRxn(1)
        /\ DistinctKeys(specList[merged_spec].Reactions)
        /\ \A own \in {load_asm_objects(specList0[1], <<>>)} :
              /\ Keys(modelobjList[merged_modelobj]) = Keys(own.objlist)
              /\ \A e \in 1..Len(own.objlist) :
                    LET m == heap[modelobjList[merged_modelobj][e].v]
                        o == own.heap[own.objlist[e].v]
                    IN /\ Len(m.influx) = Len(o.influx)
                       /\ Len(m.outflux) = Len(o.outflux)

C6_Witness ==
    /\ pc = "done" /\ p_specList /\ p_modelobjList
    /\ N = 2 /\ specList0[2] = specList0[1]
    /\ Keys(specList0[1].Reactions) = <<<<"r", "1">>, <<"r", "2">>>>
    /\ Len(specList[merged_spec].Reactions) = 4
    /\ Has(modelobjList[merged_modelobj], nameA)
    /\ Len(heap[Get(modelobjList[merged_modelobj], nameA)].outflux) = 2

\* ---- C7 ----
UnionStanzas == {"Objects", "Initials", "Variables", "Reactions"}

\* the last specification in list order that declares key in stanza st
LastDeclaring(st, key) ==
    CHOOSE i \in 1..N : /\ Has(specList[i][st], key)
                        /\ \A j \in (i + 1)..N : ~Has(specList[j][st], key)

MergeSpecUnion ==
    \A st \in UnionStanzas :
        LET merged == specList'[1][st]
        IN /\ KeySet(merged) = UNION {KeySet(specList[i][st]) : i \in 1..N}
           /\ DistinctKeys(merged)
           /\ \A key \in KeySet(merged) :
                 Get(merged, key) = Get(specList[LastDeclaring(st, key)][st], key)

\* C7: mergeSpecification produces, for each of Objects, Initials, Variables
\* and Reactions, the union of the keys of all input specifications, and a key
\* declared by several specifications keeps the value of the last one in list
\* order that declares it.
C7_LastWins == [][(MergeSpec /\ p_specList) => MergeSpecUnion]_vars

C7_Witness ==
    /\ pc = "mergeObj" /\ merged_spec = 1 /\ N = 3
    /\ Get(specList0[1].Objects, nameA) = <<"a", "1">>
    /\ Get(specList[1].Objects, nameA) = <<"a", "3">>
    /\ Get(specList0[2].Objects, nameB) = <<"b", "2">>
    /\ ~Has(specList0[3].Objects, nameB)
    /\ Get(specList[1].Objects, nameB) = <<"b", "2">>

\* ---- C8 ----
RECURSIVE SumIdentifiers(_)
SumIdentifiers(i) ==
    IF i = 0 THEN 0 ELSE Len(specList0[i].Identifiers) + SumIdentifiers(i - 1)

\* C8: after mergeSpecification of N specifications no Identifiers entry of
\* any input is overwritten: the merged Identifiers stanza holds the first
\* specification's entries plus one distinct entry for each identifier of each
\* later specification.
C8_NoIdentifierLost ==
    (pc \in {"mergeObj", "mergeLoop", "return", "done"} /\ merged_spec # 0) =>
        LET merged == specList[merged_spec].Identifiers
            first == specList0[1].Identifiers
        IN /\ DistinctKeys(merged)
           /\ Len(merged) = SumIdentifiers(N)
           /\ SubSeq(merged, 1, Len(first)) = first
           /\ \A i \in 2..N : ValueSet(specList0[i].Identifiers) \subseteq ValueSet(merged)

\* ---- C9 ----
InputRefs(i) == ValueSet(modelobjList0[i])

\* C9 as the specification states it: the specification and the entity table
\* that modelMerge returns are not any input specification or input table, and
\* no entity record of the merged table is an entity record of an input table.
C9_NewInstances ==
    pc = "done" =>
        /\ merged_spec \notin 1..N
        /\ merged_modelobj \notin 1..N
        /\ merged_modelobj # 0 =>
              \A i \in 1..N : ValueSet(modelobjList[merged_modelobj]) \cap InputRefs(i) = {}

\* the first input table in list order that declares the entity name
FirstDeclaring(tables, name) ==
    CHOOSE i \in 1..N : /\ Has(tables[i], name)
                        /\ \A j \in 1..(i - 1) : ~Has(tables[j], name)

\* C9: modelMerge returns the first input specification and the first input
\* entity table themselves (None for a flag that is false), and every entity
\* record of the merged table is the record of the first input table in list
\* order that declares the name, so the records of the inputs are the ones a
\* later flux merge changes.
C9_FirstInputReturned ==
    pc = "done" =>
        /\ merged_spec = (IF p_specList THEN 1 ELSE 0)
        /\ merged_modelobj = (IF p_modelobjList THEN 1 ELSE 0)
        /\ p_modelobjList =>
              /\ Len(heap) = Len(heap0)
              /\ \A e \in 1..Len(modelobjList[1]) :
                    LET name == modelobjList[1][e].k
                    IN modelobjList[1][e].v =
                          Get(modelobjList0[FirstDeclaring(modelobjList0, name)], name)

\* a record of the second input table, taken into the merged table, has
\* gained a flux from the third
C9_Witness ==
    /\ pc = "done" /\ p_specList /\ p_modelobjList /\ N = 3
    /\ ~Has(modelobjList0[1], nameC)
    /\ Has(modelobjList0[2], nameC)
    /\ Get(modelobjList[1], nameC) = Get(modelobjList0[2], nameC)
    /\ Get(modelobjList[2], nameC) = Get(modelobjList0[2], nameC)
    /\ Len(heap[Get(modelobjList0[2], nameC)].influx) >
          Len(heap0[Get(modelobjList0[2], nameC)].influx)

\* ---- C10 ----
JustLoaded == pc = "rename" /\ index = 1

SeqSet(q) == {q[j] : j \in 1..Len(q)}

FluxOfReaction(flux, R, E, named) ==
    (Has(flux, R) /\ Get(flux, R) = E) <=> named

\* C10: after load_reactions_1, for every reaction id R with rate law E and
\* every entity e of the table, e.outflux[R] = E if and only if e is named
\* among R's sources and e.influx[R] = E if and only if e is named among R's
\* destinations, and no other flux entry exists.
C10_FluxIffNamed ==
    JustLoaded =>
        \A i \in 1..N :
            \A reactions \in {process_reactions_1(specList0[i])} :
                \A e \in 1..Len(modelobjList[i]) :
                    LET name == modelobjList[i][e].k
                        obj == heap[modelobjList[i][e].v]
                    IN /\ obj.name = name
                       /\ KeySet(obj.outflux) \subseteq KeySet(reactions)
                       /\ KeySet(obj.influx) \subseteq KeySet(reactions)
                       /\ DistinctKeys(obj.outflux) /\ DistinctKeys(obj.influx)
                       /\ \A r \in 1..Len(reactions) :
                             /\ FluxOfReaction(obj.outflux, reactions[r].k,
                                               reactions[r].v.rateEq,
                                               name \in SeqSet(reactions[r].v.sources))
                             /\ FluxOfReaction(obj.influx, reactions[r].k,
                                               reactions[r].v.rateEq,
                                               name \in SeqSet(reactions[r].v.destinations))

\* 'r1 = A -> B | k1*A' gives A.outflux = {r1: k1*A} and B.influx = {r1: k1*A}
C10_Witness ==
    /\ JustLoaded
    /\ specList0[1].Reactions = <<Entry(<<"r", "1">>, Text1)>>
    /\ Has(modelobjList[1], nameA) /\ Has(modelobjList[1], nameB)
    /\ heap[Get(modelobjList[1], nameA)].outflux =
          <<Entry(<<"r", "1">>, <<"k", "1", "*", "A">>)>>
    /\ heap[Get(modelobjList[1], nameA)].influx = <<>>
    /\ heap[Get(modelobjList[1], nameB)].influx =
          <<Entry(<<"r", "1">>, <<"k", "1", "*", "A">>)>>
    /\ heap[Get(modelobjList[1], nameB)].outflux = <<>>


\* ---- C11 ----
\* the place of reaction j of specification i in the concatenated reaction list
RECURSIVE FlatIndex(_, _)
FlatIndex(i, j) == IF i = 1 THEN j ELSE Len(specList[i - 1].Reactions) + FlatIndex(i - 1, j)

\* the text of a reaction has nothing before (side 1) or after (side 2) the
\* arrow of its movement
EmptySide(text, side) ==
    Strip(Split(Split(text, <<"|">>)[1], <<"-", ">">>)[side]) = <<>>

NetworkWritten == pc = "written" /\ command = "genNetwork"

\* C11 as stated: an empty source or destination side carries the sentinel
\* list ['X'] both in the reaction table of process_reactions_1 and in the
\* reaction list of processReactions.
C11_BothSentinel ==
    NetworkWritten =>
        \A i \in 1..Len(specList) : \A j \in 1..Len(specList[i].Reactions) :
            /\ EmptySide(specList[i].Reactions[j].v, 1) =>
                  /\ reactionTables[i][j].v.sources = << <<"X">> >>
                  /\ reactionList[FlatIndex(i, j)][1] = << <<"X">> >>
            /\ EmptySide(specList[i].Reactions[j].v, 2) =>
                  /\ reactionTables[i][j].v.destinations = << <<"X">> >>
                  /\ reactionList[FlatIndex(i, j)][2] = << <<"X">> >>

\* C11: an empty source or destination side carries the sentinel list ['X'] in
\* the reaction list of processReactions, and the list [''] of the empty name
\* in the reaction table of process_reactions_1: the two differ.
C11_SentinelInNetworkOnly ==
    NetworkWritten =>
        \A i \in 1..Len(specList) : \A j \in 1..Len(specList[i].Reactions) :
            /\ EmptySide(specList[i].Reactions[j].v, 1) =>
                  /\ reactionTables[i][j].v.sources = << <<>> >>
                  /\ reactionList[FlatIndex(i, j)][1] = << <<"X">> >>
            /\ EmptySide(specList[i].Reactions[j].v, 2) =>
                  /\ reactionTables[i][j].v.destinations = << <<>> >>
                  /\ reactionList[FlatIndex(i, j)][2] = << <<"X">> >>

\* '-> A | kA*AB' in the first specification and 'B -> | k1*B' in the second
C11_Witness ==
    /\ NetworkWritten
    /\ Len(specList) = 2
    /\ specList[1].Reactions = <<Entry(<<"r", "1">>, GText1), Entry(<<"r", "2">>, GText2)>>
    /\ specList[2].Reactions = <<Entry(<<"r", "1">>, GText4)>>
    /\ reactionList[2] = << << <<"X">> >>, <<nameA>> >>
    /\ reactionList[3] = << <<nameB>>, << <<"X">> >> >>
    /\ reactionTables[1][2].v.sources = << <<>> >>
    /\ reactionTables[2][1].v.destinations = << <<>> >>

\* ---- C12 ----
\* C12: a reaction that names an entity absent from Objects is a soft failure:
\* load_reactions_1 raises no exception, records no flux for the unknown name,
\* records the flux entries of every known entity of that reaction on both
\* sides and goes on to process all remaining reactions.
C12_SoftFailure ==
    JustLoaded =>
        \A i \in 1..N :
            \A reactions \in {process_reactions_1(specList0[i])} :
                (\E u \in 1..Len(reactions) :
                     UnknownNames(reactions[u].v, modelobjList[i]) # {}) =>
                    /\ error = "ok"
                    /\ \A r \in 1..Len(reactions) :
                          /\ \A n \in UnknownNames(reactions[r].v, modelobjList[i]) :
                                \A e \in 1..Len(modelobjList[i]) :
                                    heap[modelobjList[i][e].v].name # n
                          /\ \A e \in 1..Len(modelobjList[i]) :
                                LET name == modelobjList[i][e].k
                                    obj == heap[modelobjList[i][e].v]
                                    R == reactions[r].k
                                    E == reactions[r].v.rateEq
                                IN /\ name \in SeqSet(reactions[r].v.sources)
                                         <=> Has(obj.outflux, R) /\ Get(obj.outflux, R) = E
                                   /\ name \in SeqSet(reactions[r].v.destinations)
                                         <=> Has(obj.influx, R) /\ Get(obj.influx, R) = E

\* r1 names Z, which is no entity: A, B and C have the flux of r1, and r2 is
\* loaded after it
C12_Witness ==
    /\ JustLoaded
    /\ specList0[1].Reactions = <<Entry(<<"r", "1">>, Text2), Entry(<<"r", "2">>, Text1)>>
    /\ ~Has(modelobjList[1], <<"Z">>)
    /\ Has(modelobjList[1], nameC)
    /\ heap[Get(modelobjList[1], nameA)].outflux =
          <<Entry(<<"r", "1">>, <<"k", "2", "*", "A">>),
            Entry(<<"r", "2">>, <<"k", "1", "*", "A">>)>>
    /\ heap[Get(modelobjList[1], nameB)].influx =
          <<Entry(<<"r", "1">>, <<"k", "2", "*", "A">>),
            Entry(<<"r", "2">>, <<"k", "1", "*", "A">>)>>
    /\ heap[Get(modelobjList[1], nameC)].influx =
          <<Entry(<<"r", "1">>, <<"k", "2", "*", "A">>)>>

\* ---- C13 ----
\* generate_ODE has numbered the entities
Indexed == command = "genODE" /\ pc \notin {"modelReader", "generate_object_table"}

\* C13: generate_object_table gives the k-th entity of the entity table,
\* counted from 0 in the order of the Objects stanza, the slot k: the slots are
\* exactly 0..N-1, no two names share one, and reading and numbering the same
\* specification again gives the same table.
C13_SlotsInDeclarationOrder ==
    Indexed =>
        /\ Len(objTable) = Len(specList[1].Objects)
        /\ \A k \in 1..Len(objTable) :
              objTable[k] = Entry(specList[1].Objects[k].k, k - 1)
        /\ {objTable[k].v : k \in 1..Len(objTable)} = 0..(Len(objTable) - 1)
        /\ \A k, l \in 1..Len(objTable) :
              objTable[k].v = objTable[l].v => objTable[k].k = objTable[l].k
        /\ \A again \in {LoadAllFrom(specList, 1, <<>>, <<>>)} :
              generate_object_table(again.modelobjList[1]) = objTable

\* C, A and B, declared in this order, hold the slots 0, 1 and 2
C13_Witness ==
    /\ Indexed
    /\ Keys(specList[1].Objects) = <<nameC, nameA, nameB>>
    /\ objTable = <<Entry(nameC, 0), Entry(nameA, 1), Entry(nameB, 2)>>

\* ---- C14 ----
\* the characters of a token: those of a word and the dot of a name or number
TokenChars == WordChars \cup {"."}

\* the place of the last character of the token that begins at s[i]; a
\* character that is of no token stands alone
TokenEnd(s, i) ==
    IF s[i] \notin TokenChars THEN i
    ELSE CHOOSE e \in i..Len(s) :
            /\ \A j \in i..e : s[j] \in TokenChars
            /\ e = Len(s) \/ s[e + 1] \notin TokenChars

RECURSIVE RewrittenFrom(_, _, _, _)
\* the expression with every token that is an entity name turned into the
\* accessor of its slot, and every other token as it was
RewrittenFrom(s, i, slots, acc) ==
    IF i > Len(s) THEN acc
    ELSE LET e == TokenEnd(s, i)
             token == SubSeq(s, i, e)
         IN RewrittenFrom(s, e + 1, slots,
                acc \o (IF Has(slots, token) THEN Accessor(Get(slots, token))
                                             ELSE token))

\* generate_ODE has rewritten the rate equations
Substituted ==
    /\ command = "genODE"
    /\ pc \notin {"modelReader", "generate_object_table", "substitute_rateEq"}

FluxRewritten(flux, rxns, slots) ==
    \A m \in 1..Len(flux) :
        flux[m].v = RewrittenFrom(Get(rxns, flux[m].k).rateEq, 1, slots, <<>>)

\* C14: substitute_rateEq turns, in every influx and outflux expression of
\* every entity, each whole-token occurrence of an entity name with slot k
\* into y[k] and leaves every other token as it was, also a token that holds
\* the name as a part.
C14_WholeTokensOnly ==
    Substituted =>
        \A e \in 1..Len(modelobjList[1]) :
            /\ FluxRewritten(heap[modelobjList[1][e].v].influx, reactionTables[1], objTable)
            /\ FluxRewritten(heap[modelobjList[1][e].v].outflux, reactionTables[1], objTable)

\* ---- C15 ----
\* generate_ODE has the derivative functions
Printed ==
    /\ command = "genODE"
    /\ pc \notin {"modelReader", "generate_object_table", "substitute_rateEq", "print_rateEq"}

NoFlux(obj) == Len(obj.influx) = 0 /\ Len(obj.outflux) = 0

\* the line '    return <expr>'
Returns(expr) == <<" ", " ", " ", " ", "r", "e", "t", "u", "r", "n", " ">> \o expr

RECURSIVE FunctionStart(_)
\* the place in ODEList of the 'def' line written for the e-th entity: every
\* function has its 'def' line, one line per flux entry, the return line and
\* the line ' '
FunctionStart(e) ==
    IF e = 1 THEN 1
    ELSE FunctionStart(e - 1) + Len(heap[modelobjList[1][e - 1].v].influx)
                              + Len(heap[modelobjList[1][e - 1].v].outflux) + 3

\* the function written for the e-th entity has only the return line
FunctionReturns(e, line) ==
    /\ FunctionStart(e) + 1 <= Len(ODEList)
    /\ ODEList[FunctionStart(e)] = DefLine(DotToUnderscore(modelobjList[1][e].k))
    /\ ODEList[FunctionStart(e) + 1] = line

\* C15 as stated: for every entity with no influx and no outflux entry the
\* derivative function emitted by print_rateEq returns the literal `0 - 0`.
C15_ZeroMinusZero ==
    Printed =>
        \A e \in 1..Len(modelobjList[1]) :
            NoFlux(heap[modelobjList[1][e].v]) =>
                FunctionReturns(e, Returns(<<"0", " ", "-", " ", "0">>))

\* C15: for every entity with no influx and no outflux entry the derivative
\* function emitted by print_rateEq returns the literal `(0) - (0)`.
C15_ZeroInParentheses ==
    Printed =>
        \A e \in 1..Len(modelobjList[1]) :
            NoFlux(heap[modelobjList[1][e].v]) =>
                FunctionReturns(e,
                    Returns(<<"(", "0", ")", " ", "-", " ", "(", "0", ")">>))

\* AB takes part in no reaction of '-> A | kA*AB': 'def AB(t, y):' is followed
\* by '    return (0) - (0)'
C15_Witness ==
    /\ Printed
    /\ Keys(modelobjList[1]) = <<nameA, nameAB>>
    /\ specList[1].Reactions = <<Entry(<<"r", "1">>, GText2)>>
    /\ NoFlux(heap[Get(modelobjList[1], nameAB)])
    /\ ODEList[5] = <<"d", "e", "f", " ", "A", "B", "(", "t", ",", " ", "y", ")", ":">>
    /\ ODEList[6] = <<" ", " ", " ", " ", "r", "e", "t", "u", "r", "n", " ",
                      "(", "0", ")", " ", "-", " ", "(", "0", ")">>

\* ---- C16 ----
\* generate_ODE has returned the program
SetUp == command = "genODE" /\ pc \in {"written", "boundary"}

\* the name with '_' at the place of every '.'
Underscored(label, name) ==
    /\ Len(label) = Len(name)
    /\ \A c \in 1..Len(name) : label[c] = IF name[c] = "." THEN "_" ELSE name[c]

\* C16 as stated: the labels list emitted by print_Setup is 'time' followed by
\* the entity names exactly as declared in Objects, in slot order.
C16_NamesAsDeclared ==
    SetUp =>
        /\ Len(ODESetup.labels) = Len(objTable) + 1
        /\ ODESetup.labels[1] = <<"t", "i", "m", "e">>
        /\ \A e \in 1..Len(objTable) :
              ODESetup.labels[objTable[e].v + 2] = objTable[e].k

\* C16: the labels list emitted by print_Setup is 'time' followed by the
\* entity names, with '_' written for every '.' of a name, in slot order:
\* labels[i+1] is that form of the name of the entity holding slot i.
C16_NamesUnderscored ==
    SetUp =>
        /\ Len(ODESetup.labels) = Len(objTable) + 1
        /\ ODESetup.labels[1] = <<"t", "i", "m", "e">>
        /\ \A e \in 1..Len(objTable) :
              Underscored(ODESetup.labels[objTable[e].v + 2], objTable[e].k)

\* Objects A and A.B: labels = ['time', 'A', 'A_B']
C16_Witness ==
    /\ SetUp
    /\ Keys(specList[1].Objects) = <<nameA, nameA_B>>
    /\ ODESetup.labels = << <<"t", "i", "m", "e">>, <<"A">>, <<"A", "_", "B">> >>

\* ---- C17 ----
SupportedSolvers ==
    {"Euler", "Heun", "RK3", "RK4", "RK38", "CK4", "CK5", "RKF4", "RKF5", "DP4", "DP5"}

\* C17: a solver name outside the eleven supported ones is a fatal error
\* raised by generate_ODE / print_Setup before any program text is emitted: no
\* integration program is returned or written for it.
C17_UnknownSolverFatal ==
    command = "genODE" /\ solver \notin SupportedSolvers =>
        /\ ODESetup = <<>>
        /\ pc # "written"

\* ---- C18 ----
\* the table of the program has, for every slot 0..N-1, exactly one entry, and
\* it holds the configured pair
TableOf(tbl, bound) ==
    /\ Len(tbl) = Len(objTable)
    /\ \A slot \in 0..(Len(objTable) - 1) :
          /\ Cardinality({e \in 1..Len(tbl) : tbl[e].k = Str(slot)}) = 1
          /\ Get(tbl, Str(slot)) = bound

\* the step of the driver that applies the boundary policy
BoundaryStep == pc = "boundary" /\ pc' = "written"

\* C18: the generated program gives every slot one lower and one upper
\* boundary entry with the configured (threshold, reset value) pair and hands
\* both tables to the driver; after every integration step a value below the
\* lower threshold of its slot is replaced by the lower reset value and a value
\* above the upper threshold by the upper reset value, every other value is
\* kept; with lowerbound [0.0, 0.0] and upperbound [1e-3, 1e-3] a step giving
\* -0.5 yields 0.0 and a step giving 2e-3 yields 1e-3.
C18_BoundaryPolicy ==
    [][/\ SetUp' =>
            /\ TableOf(ODESetup.lowerbound, lowerbound)'
            /\ TableOf(ODESetup.upperbound, upperbound)'
            /\ ODESetup'.model.lowerbound = "lowerbound"
            /\ ODESetup'.model.upperbound = "upperbound"
       /\ BoundaryStep =>
            /\ Len(y') = Len(y)
            /\ \A i \in 1..Len(y) :
                  \A lo \in {Get(ODESetup.lowerbound, Str(i - 1))},
                     up \in {Get(ODESetup.upperbound, Str(i - 1))} :
                      /\ y[i] < lo[1] => y'[i] = lo[2]
                      /\ y[i] > up[1] => y'[i] = up[2]
                      /\ y[i] >= lo[1] /\ y[i] <= up[1] => y'[i] = y[i]
                      /\ lowerbound = <<0, 0>> /\ upperbound = <<10, 10>> =>
                            /\ y[i] = -5000 => y'[i] = 0
                            /\ y[i] = 20 => y'[i] = 10
      ]_vars

\* with the default boundaries the step giving -0.5 and 2e-3 has left 0.0 and
\* 1e-3
C18_Witness ==
    /\ SetUp
    /\ pc = "written"
    /\ steps = 1
    /\ lowerbound = <<0, 0>>
    /\ upperbound = <<10, 10>>
    /\ ODESetup.lowerbound = <<Entry(<<"0">>, <<0, 0>>), Entry(<<"1">>, <<0, 0>>)>>
    /\ ODESetup.upperbound = <<Entry(<<"0">>, <<10, 10>>), Entry(<<"1">>, <<10, 10>>)>>
    /\ y = <<0, 10>>

\* ---- C19 ----
\* the line 'a kind b' of a SIF file
SIFLine(a, kind, b) == a \o <<" ">> \o kind \o <<" ">> \o b

\* how often the line is in datalist
Occurrences(line) == Cardinality({x \in 1..Len(datalist) : datalist[x] = line})

\* the pseudo-nodes r<n>s and r<n>p of the reaction with number n
SourceNode(n) == <<"r">> \o Str(n) \o <<"s">>
ProductNode(n) == <<"r">> \o Str(n) \o <<"p">>

\* the entities of a side of a parsed reaction, X for an empty side
SideOrX(side) == IF side = << <<>> >> THEN << <<"X">> >> ELSE side

RECURSIVE EdgesUpTo(_, _)
\* the number of edges of the first n reactions of the list
EdgesUpTo(rl, n) ==
    IF n = 0 THEN 0
    ELSE EdgesUpTo(rl, n - 1) + Len(rl[n][1]) + Len(rl[n][2]) + 1

\* C19: generateNetworkMap in SIF format keeps every reaction of every
\* specification exactly once: reaction number n of the concatenated list
\* gives exactly one 'rxn' edge between its pseudo-nodes r<n>s and r<n>p, one
\* 'cr' edge for every source entity and one 'rc' edge for every destination
\* entity (X for an empty side), nothing else is written, and no two
\* reactions, also of different specifications, share a pseudo-node.
C19_EveryReactionOnce ==
    NetworkWritten =>
        /\ Len(reactionList) = FlatIndex(Len(specList), Len(specList[Len(specList)].Reactions))
        /\ Len(datalist) = EdgesUpTo(reactionList, Len(reactionList))
        /\ \A i \in 1..Len(specList) : \A j \in 1..Len(specList[i].Reactions) :
              \A n \in {FlatIndex(i, j) - 1} :
                  \A src \in {SideOrX(reactionTables[i][j].v.sources)},
                     dst \in {SideOrX(reactionTables[i][j].v.destinations)} :
                      /\ reactionList[n + 1] = <<src, dst>>
                      /\ Occurrences(SIFLine(SourceNode(n), <<"r", "x", "n">>, ProductNode(n))) = 1
                      /\ \A p \in 1..Len(src) :
                            Occurrences(SIFLine(src[p], <<"c", "r">>, SourceNode(n)))
                                = Cardinality({q \in 1..Len(src) : src[q] = src[p]})
                      /\ \A p \in 1..Len(dst) :
                            Occurrences(SIFLine(ProductNode(n), <<"r", "c">>, dst[p]))
                                = Cardinality({q \in 1..Len(dst) : dst[q] = dst[p]})
        /\ \A n, m \in 0..(Len(reactionList) - 1) :
              n # m =>
                  {SourceNode(n), ProductNode(n)} \cap {SourceNode(m), ProductNode(m)} = {}

\* 'A -> B | 0.1*A' and '-> A | kA*AB' of the first specification and
\* 'B -> | k1*B' of the second are the reactions 0, 1 and 2
C19_Witness ==
    /\ NetworkWritten
    /\ Len(specList) = 2
    /\ specList[1].Reactions = <<Entry(<<"r", "1">>, GText1), Entry(<<"r", "2">>, GText2)>>
    /\ specList[2].Reactions = <<Entry(<<"r", "1">>, GText4)>>
    /\ datalist =
          <<<<"A", " ", "c", "r", " ", "r", "0", "s">>,
            <<"r", "0", "p", " ", "r", "c", " ", "B">>,
            <<"r", "0", "s", " ", "r", "x", "n", " ", "r", "0", "p">>,
            <<"X", " ", "c", "r", " ", "r", "1", "s">>,
            <<"r", "1", "p", " ", "r", "c", " ", "A">>,
            <<"r", "1", "s", " ", "r", "x", "n", " ", "r", "1", "p">>,
            <<"B", " ", "c", "r", " ", "r", "2", "s">>,
            <<"r", "2", "p", " ", "r", "c", " ", "X">>,
            <<"r", "2", "s", " ", "r", "x", "n", " ", "r", "2", "p">>>>

\* ---- C20 ----
\* modelspec_reader has returned or raised
ReadDone == modelspec # <<>> /\ pc \in {"returned", "raised"}

\* line j of the file is the header of a stanza
HeaderLine(j) == ValueOf(modelspec[j]) # <<>> /\ IsHeader(ValueOf(modelspec[j]))

\* line j is inside a stanza: a header is before it
InStanza(j) == \E h \in 1..(j - 1) : HeaderLine(h)

\* the name of the stanza line j is in
StanzaOf(j) ==
    HeaderOf(ValueOf(modelspec[
        CHOOSE h \in 1..(j - 1) : HeaderLine(h) /\ \A g \in (h + 1)..(j - 1) : ~HeaderLine(g)]))

\* line j has text, is no header, and holds neither '=' nor ':'
Unsplittable(j) ==
    /\ ValueOf(modelspec[j]) # <<>>
    /\ ~HeaderLine(j)
    /\ \A c \in 1..Len(ValueOf(modelspec[j])) : ValueOf(modelspec[j])[c] \notin {"=", ":"}

\* line j has a delimiter and no key before it
KeyMissing(j) ==
    ValueOf(modelspec[j]) # <<>> /\ ValueOf(modelspec[j])[1] \in {"=", ":"}

\* C20 as stated: modelspec_reader fails with a parse error whenever a line
\* inside a stanza cannot be split into key and value by '=' or ':'; such a
\* line is never accepted as an entry of the returned specification.
C20_UnsplittableRefused ==
    ReadDone =>
        \A j \in 1..Len(modelspec) :
            InStanza(j) /\ Unsplittable(j) =>
                /\ pc = "raised"
                /\ \A i \in 1..Len(sections) : ~Has(sections[i].v, ValueOf(modelspec[j]))

\* C20: modelspec_reader does not fail because a line inside a stanza holds
\* neither '=' nor ':': such a line, when it is not indented, is accepted as an
\* entry of the returned specification, the line being the key and the value
\* None; a parsing error is raised only for a line with a delimiter and no key
\* before it.
C20_UnsplittableAccepted ==
    ReadDone =>
        /\ error = "ParsingError" => \E j \in 1..Len(modelspec) : KeyMissing(j)
        /\ pc = "returned" =>
              \A j \in 1..Len(modelspec) :
                  InStanza(j) /\ Unsplittable(j) /\ IndentOf(modelspec[j]) = 0 =>
                      /\ Has(sections, StanzaOf(j))
                      /\ Has(Get(sections, StanzaOf(j)), ValueOf(modelspec[j]))
                      /\ (\A g \in 1..Len(modelspec) :
                              Unsplittable(g) \/ ValueOf(modelspec[g]) = <<>> \/ HeaderLine(g)
                                 \/ OptionOf(ValueOf(modelspec[g])) # ValueOf(modelspec[j]))
                            => Get(Get(sections, StanzaOf(j)), ValueOf(modelspec[j])) = NoneVal

\* the file '[Objects]', 'A = a', 'C' is read as the stanza Objects with the
\* entries A = 'a' and C = None
C20_Witness ==
    /\ pc = "returned"
    /\ modelspec = <<<<"[", "O", "b", "j", "e", "c", "t", "s", "]">>, <<"A", " ", "=", " ", "a">>, <<"C">>>>
    /\ sections = <<Entry(<<"O", "b", "j", "e", "c", "t", "s">>, <<Entry(<<"A">>, StrVal(<<"a">>)), Entry(<<"C">>, NoneVal)>>)>>

(***************************************************************************)
(* C21: the parsers of interface_cameo.py and malformed entries.           *)
(***************************************************************************)
Parsed == parser # "none" /\ pc \in {"returned", "raised"}

\* the entries of the string and the fields of an entry, as the string shows them
EntriesOf(text) == Split(text, <<";">>)
FieldsOf(entry) == StripAll(Split(entry, <<",">>))
Bare(field) == EndStripped(StartStripped(field))

\* an entry is well-formed when it has exactly the fields of its kind and its
\* bounds are integers, resp. its value is a number
WellFormed(entry) ==
    IF parser = "_parse_mutation"
    THEN Len(FieldsOf(entry)) = 3 /\ IsInt(FieldsOf(entry)[2]) /\ IsInt(FieldsOf(entry)[3])
    ELSE Len(FieldsOf(entry)) = 2 /\ IsFloat(Bare(FieldsOf(entry)[2]))

IdOf(entry) == IF parser = "_parse_mutation" THEN FieldsOf(entry)[1] ELSE Bare(FieldsOf(entry)[1])
ValueFor(entry) ==
    IF parser = "_parse_mutation"
    THEN <<IntOf(FieldsOf(entry)[2]), IntOf(FieldsOf(entry)[3])>>
    ELSE FloatOf(Bare(FieldsOf(entry)[2]))

\* C21: _parse_mutation and _parse_medium_change raise an error exactly when
\* some entry of the ';'-separated string is malformed (too few fields, too
\* many fields, no text, a bound or value that is no number); for a string of
\* well-formed entries they return one mapping entry per id, holding the
\* bounds resp. the value of an entry of that id.
C21_MalformedRaises ==
    Parsed =>
        /\ (error # "ok") <=> (\E i \in 1..Len(EntriesOf(argument)) : ~WellFormed(EntriesOf(argument)[i]))
        /\ error = "ok" =>
              /\ \A i, j \in 1..Len(ndict) : ndict[i].k = ndict[j].k => i = j
              /\ {ndict[i].k : i \in 1..Len(ndict)} =
                     {IdOf(EntriesOf(argument)[i]) : i \in 1..Len(EntriesOf(argument))}
              /\ \A i \in 1..Len(ndict) : \E j \in 1..Len(EntriesOf(argument)) :
                     /\ IdOf(EntriesOf(argument)[j]) = ndict[i].k
                     /\ ValueFor(EntriesOf(argument)[j]) = ndict[i].v

\* the same with entries of too many fields left aside: what the code does
C21_TooFewOrNonNumericRaises ==
    Parsed /\ (\A i \in 1..Len(EntriesOf(argument)) :
                  Len(FieldsOf(EntriesOf(argument)[i])) <= (IF parser = "_parse_mutation" THEN 3 ELSE 2)) =>
        (error # "ok") <=> (\E i \in 1..Len(EntriesOf(argument)) : ~WellFormed(EntriesOf(argument)[i]))

\* a mutation with a fourth field has been parsed
C21_Witness ==
    /\ Parsed
    /\ error = "ok"
    /\ \E i \in 1..Len(EntriesOf(argument)) :
          Len(FieldsOf(EntriesOf(argument)[i])) > (IF parser = "_parse_mutation" THEN 3 ELSE 2)

(***************************************************************************)
(* C22: the rows that runODEScript writes.                                 *)
(***************************************************************************)
SampleDone == pc = "closed"

\* the indices of the rows due: the multiples of sampling and the final row
RowsDue ==
    {i \in 0..(Len(model) - 1) : (\E q \in 0..Len(model) : i = q * sampling) \/ i = Len(model) - 1}

\* the k-th of the rows due, in simulation order
RowDue(k) == CHOOSE i \in RowsDue : Cardinality({j \in RowsDue : j < i}) = k - 1

LineOf(i) == CsvLine(StrAll(model[i + 1]))

\* C22: after the header line, runODEScript writes exactly the rows whose
\* index is a multiple of sampling together with the final row, in simulation
\* order and each exactly once.
C22_EachRowOnce ==
    SampleDone =>
        /\ resultfile[1] = CsvLine(ScriptLabels)
        /\ Len(resultfile) = 1 + Cardinality(RowsDue)
        /\ \A k \in 1..Cardinality(RowsDue) : resultfile[k + 1] = LineOf(RowDue(k))

\* what holds of the code: the rows due are written in order, and the final
\* row is written a second time when its index is a multiple of sampling
C22_FinalRowAgain ==
    SampleDone =>
        \E extra \in {IF (Len(model) - 1) % sampling = 0 THEN 1 ELSE 0} :
            /\ Len(resultfile) = 1 + Cardinality(RowsDue) + extra
            /\ \A k \in 1..Cardinality(RowsDue) : resultfile[k + 1] = LineOf(RowDue(k))
            /\ resultfile[Len(resultfile)] = LineOf(Len(model) - 1)
            /\ resultfile[2] = LineOf(0)

\* a simulation whose final row has an index that is a multiple of sampling
C22_Witness ==
    /\ SampleDone
    /\ Len(model) > 1
    /\ (Len(model) - 1) % sampling = 0
    /\ resultfile[Len(resultfile)] = resultfile[Len(resultfile) - 1]

(***************************************************************************)
(* C23: entity names that occur inside other entity names.                 *)
(***************************************************************************)
\* the name occurs inside the other name
Inside(short, long) ==
    /\ short # long
    /\ \E i \in 1..Len(long) : i + Len(short) - 1 <= Len(long) /\ SubSeq(long, i, i + Len(short) - 1) = short

\* the places of s where the text begins
PlacesOf(text, s) == {i \in 1..Len(s) : i + Len(text) - 1 <= Len(s) /\ SubSeq(s, i, i + Len(text) - 1) = text}

\* the places of s where a token begins that is the name
TokenPlaces(name, s) ==
    {i \in 1..Len(s) : /\ s[i] \in TokenChars
                      /\ (i = 1 \/ s[i - 1] \notin TokenChars)
                      /\ SubSeq(s, i, TokenEnd(s, i)) = name}

\* the orders in which n names can be taken
Orders(n) == {p \in [1..n -> 1..n] : \A i, j \in 1..n : p[i] = p[j] => i = j}

\* the influx and outflux entries of the entities, as the generator holds them
FluxEntries ==
    UNION {{heap[modelobjList[1][e].v].influx[m] : m \in 1..Len(heap[modelobjList[1][e].v].influx)}
           \cup {heap[modelobjList[1][e].v].outflux[m] : m \in 1..Len(heap[modelobjList[1][e].v].outflux)} :
           e \in 1..Len(modelobjList[1])}

\* C23: when one entity name occurs inside another, substitute_rateEq turns
\* every occurrence of the longer name into the accessor of the longer name,
\* and the rewritten expression is the same for every order in which the
\* names are substituted.
C23_LongerNameKept ==
    Substituted =>
        \A f \in FluxEntries : \A orig \in {Get(reactionTables[1], f.k).rateEq} :
            /\ \A l \in 1..Len(objTable) :
                  (\E s \in 1..Len(objTable) : Inside(objTable[s].k, objTable[l].k)) =>
                      Cardinality(PlacesOf(Accessor(objTable[l].v), f.v)) =
                          Cardinality(TokenPlaces(objTable[l].k, orig))
            /\ \A p \in Orders(Len(objTable)) :
                  SubstituteAll(orig, [i \in 1..Len(objTable) |-> STable(objTable)[p[i]]], 1) = f.v

(***************************************************************************)
(* C24: what the derivative function of an entity evaluates to.            *)
(***************************************************************************)
\* the number of flux entries of the e-th entity
FluxCount(e) ==
    Len(heap[modelobjList[1][e].v].influx) + Len(heap[modelobjList[1][e].v].outflux)

\* the assignment lines of the function written for the e-th entity, and its
\* return line
BodyOf(e) == SubSeq(ODEList, FunctionStart(e) + 1, FunctionStart(e) + FluxCount(e))
ReturnOf(e) == ODEList[FunctionStart(e) + FluxCount(e) + 1]

\* '    <name> = <expr>': the name assigned to and the expression
AssignedName(line) == Strip(Split(line, <<" ", "=", " ">>)[1])
AssignedExpr(line) == SubSeq(line, 4 + Len(AssignedName(line)) + 3 + 1, Len(line))

\* what the name holds when the return line is reached: the expression of
\* the last assignment to it; 0 is the number
ValueAtReturn(e, name) ==
    IF name = <<"0">> THEN name
    ELSE AssignedExpr(BodyOf(e)[CHOOSE b \in 1..Len(BodyOf(e)) :
                                   /\ AssignedName(BodyOf(e)[b]) = name
                                   /\ \A c \in (b + 1)..Len(BodyOf(e)) :
                                         AssignedName(BodyOf(e)[c]) # name])

\* '    return (<a> + <b>) - (<c>)': the names added, and the names subtracted
ReturnSides(line) == Split(SubSeq(line, 13, Len(line) - 1), <<")", " ", "-", " ", "(">>)
Added(e) == Split(ReturnSides(ReturnOf(e))[1], <<" ", "+", " ">>)
Subtracted(e) == Split(ReturnSides(ReturnOf(e))[2], <<" ", "+", " ">>)

\* the expressions of a flux map, 0 for an empty one
Contributions(flux) == IF Len(flux) = 0 THEN << <<"0">> >> ELSE Values(flux)

\* the terms evaluate to the expressions, each as often as it is due
SameSum(e, terms, exprs) ==
    /\ Len(terms) = Len(exprs)
    /\ \A x \in {exprs[i] : i \in 1..Len(exprs)} :
          Cardinality({i \in 1..Len(terms) : ValueAtReturn(e, terms[i]) = x}) =
              Cardinality({i \in 1..Len(exprs) : exprs[i] = x})

\* C24: for every entity print_rateEq writes exactly one function taking
\* (t, y), and what the function returns is the sum of the influx expressions
\* minus the sum of the outflux expressions of the entity, every flux entry
\* contributing its own expression exactly once and an empty side being 0.
C24_SumOfOwnExpressions ==
    Printed =>
        /\ Cardinality({d \in 1..Len(ODEList) :
                           Len(ODEList[d]) > 4 /\ SubSeq(ODEList[d], 1, 4) = <<"d", "e", "f", " ">>})
               = Len(modelobjList[1])
        /\ \A e \in 1..Len(modelobjList[1]) :
              /\ ODEList[FunctionStart(e)] = DefLine(DotToUnderscore(modelobjList[1][e].k))
              /\ SameSum(e, Added(e), Contributions(heap[modelobjList[1][e].v].influx))
              /\ SameSum(e, Subtracted(e), Contributions(heap[modelobjList[1][e].v].outflux))

(***************************************************************************)
(* C27: the substitution of the entity names as one simultaneous step.     *)
(***************************************************************************)
\* the first name of the table, if any, that matches s from s[i] on
MatchesAt(sTable, s, i) == {n \in 1..Len(sTable) : WordAt(sTable[n].k, s, i)}
FirstMatch(sTable, s, i) == CHOOSE n \in MatchesAt(sTable, s, i) : \A o \in MatchesAt(sTable, s, i) : n <= o

RECURSIVE SimultaneousFrom(_, _, _, _)
\* one pass over the expression: every match of a name is replaced by its
\* accessor, and the accessors put in are never looked at again
SimultaneousFrom(sTable, s, i, acc) ==
    IF i > Len(s) THEN acc
    ELSE IF MatchesAt(sTable, s, i) # {}
         THEN SimultaneousFrom(sTable, s, i + Len(sTable[FirstMatch(sTable, s, i)].k),
                               acc \o sTable[FirstMatch(sTable, s, i)].v)
         ELSE SimultaneousFrom(sTable, s, i + 1, Append(acc, s[i]))

\* C27: substitute_rateEq behaves as one simultaneous substitution of the
\* entity names: an accessor y[k] that was put in is never rewritten by the
\* substitution of a later name, also when an entity has the name y or the
\* name of a number.
C27_OneSimultaneousStep ==
    Substituted =>
        \A f \in FluxEntries :
            f.v = SimultaneousFrom(STable(objTable), Get(reactionTables[1], f.k).rateEq, 1, <<>>)

(***************************************************************************)
(* C30: the names of the derivative functions and the labels.              *)
(***************************************************************************)
\* the function that the name is bound to when the program has run its
\* definitions: the last 'def' line of that name in ODEList
BoundTo(name) ==
    CHOOSE d \in 1..Len(ODEList) :
        /\ ODEList[d] = DefLine(name)
        /\ \A c \in (d + 1)..Len(ODEList) : ODEList[c] # DefLine(name)

\* C30: distinct entities get distinct derivative function names and distinct
\* labels, also when their names differ only by '.' and '_', so that every
\* slot of the ODE vector is bound to the derivative function of its own
\* entity.
C30_DistinctFunctions ==
    SetUp /\ error = "ok" =>
        /\ \A a, b \in 1..Len(objTable) :
              a # b => /\ ODESetup.ODE[a].name # ODESetup.ODE[b].name
                       /\ ODESetup.labels[a + 1] # ODESetup.labels[b + 1]
        /\ \A a \in 1..Len(objTable) :
              /\ ODESetup.ODE[a].slot = Str(objTable[a].v)
              /\ BoundTo(ODESetup.ODE[a].name) = FunctionStart(a)

(***************************************************************************)
(* C26: the warnings of load_reactions_1.                                  *)
(***************************************************************************)
\* modelReader has built the entity tables
Loaded == command # "genMO" /\ pc # "modelReader"

\* the names of a side of a reaction that are no entity, one for every
\* reference, in the order of the side
Unresolved(side, objlist) == SelectSeq(side, LAMBDA x : x # <<>> /\ ~Has(objlist, x))

RECURSIVE UnresolvedFrom(_, _, _)
\* the unresolved references of the reactions of a specification: for every
\* reaction those of its sources, then those of its destinations
UnresolvedFrom(reactions, i, objlist) ==
    IF i > Len(reactions) THEN <<>>
    ELSE Unresolved(reactions[i].v.sources, objlist)
             \o Unresolved(reactions[i].v.destinations, objlist)
             \o UnresolvedFrom(reactions, i + 1, objlist)

RECURSIVE UnresolvedOfAll(_)
UnresolvedOfAll(i) ==
    IF i > Len(specList) THEN <<>>
    ELSE UnresolvedFrom(reactionTables[i], 1, modelobjList[i]) \o UnresolvedOfAll(i + 1)

\* C26: in load_reactions_1 every unresolved entity reference, on the source
\* side or on the destination side of a reaction, produces exactly one
\* warning, and the warning names the entity that was not found in Objects.
C26_WarningNamesEntity ==
    Loaded => warnings = UnresolvedOfAll(1)

\* what holds of the code: one warning for every unresolved reference
C26_OneWarningEach ==
    Loaded => Len(warnings) = Len(UnresolvedOfAll(1))

(***************************************************************************)
(* C25: sensitivityGenerator changes one factor at a time.                 *)
(***************************************************************************)
SensReturned == pc = "returned"

\* the number written as text a is the number written as text o, times m
IsProduct(a, o, m) ==
    FloatOf(a).mant * Pow10(FloatOf(o).scale) = FloatOf(o).mant * m * Pow10(FloatOf(a).scale)

\* the specification written for the p-th variable: that variable is the
\* original value times multiple, every other variable has its original value
OneFactorChanged(p) ==
    /\ Has(tModelFile, FilePath(bspec0[p].k))
    /\ \A written \in {Get(tModelFile, FilePath(bspec0[p].k))} :
          /\ Keys(written) = Keys(bspec0)
          /\ \A q \in 1..Len(bspec0) :
                IsProduct(written[q].v, bspec0[q].v, IF q = p THEN multiple ELSE 1)

\* the variables of the baseline have their original values
BaselineRestored ==
    /\ Keys(bspec) = Keys(bspec0)
    /\ \A q \in 1..Len(bspec0) : IsProduct(bspec[q].v, bspec0[q].v, 1)

\* the table has the entry 'original' of the baseline and one entry for
\* every variable
TableComplete ==
    /\ Len(gModelSpecFiles) = Len(bspec0) + 1
    /\ Has(gModelSpecFiles, <<"o", "r", "i", "g", "i", "n", "a", "l">>)
    /\ Get(gModelSpecFiles, <<"o", "r", "i", "g", "i", "n", "a", "l">>).Change = <<"N", "o", "n", "e">>
    /\ \A q \in 1..Len(bspec0) : Has(gModelSpecFiles, bspec0[q].k)

\* C25: sensitivityGenerator is one-factor-at-a-time: the specification
\* written for a variable has that variable at its original value times
\* multiple and every other variable at its original value; the baseline is
\* restored after each perturbation, so all variables have their original
\* values when the function returns; and the returned table has one entry for
\* every variable and the entry 'original'.
C25_OneFactorAtATime ==
    /\ pc = "Variables" => BaselineRestored
    /\ SensReturned =>
          /\ \A p \in 1..Len(bspec0) : OneFactorChanged(p)
          /\ BaselineRestored
          /\ TableComplete

\* what holds of the code: all of it but the entry of the baseline
C25_FactorsAndBaseline ==
    /\ pc = "Variables" => BaselineRestored
    /\ SensReturned =>
          /\ \A p \in 1..Len(bspec0) : OneFactorChanged(p)
          /\ BaselineRestored
          /\ \A q \in 1..Len(bspec0) : Has(gModelSpecFiles, bspec0[q].k)

(***************************************************************************)
(* C28: the merged entity table and the merged Reactions stanza.           *)
(***************************************************************************)
\* modelMerge has returned the merged specification and the merged table
BothMerged == pc = "done" /\ p_specList /\ p_modelobjList

\* the reactions of the merged specification, as GraphBuilder parses them
MergedReactions == process_reactions_1(specList[merged_spec])

\* the ids of the merged reactions that list the name as a destination, and
\* of those that list it as a source
IntoIds(name) ==
    {MergedReactions[r].k : r \in {x \in 1..Len(MergedReactions) :
                                      name \in SeqSet(MergedReactions[x].v.destinations)}}
OutOfIds(name) ==
    {MergedReactions[r].k : r \in {x \in 1..Len(MergedReactions) :
                                      name \in SeqSet(MergedReactions[x].v.sources)}}

\* every entry of the flux map has the rate law of the merged reaction of its id
RateLawsOf(flux) ==
    \A m \in 1..Len(flux) :
        Has(MergedReactions, flux[m].k) => flux[m].v = Get(MergedReactions, flux[m].k).rateEq

\* C28 as stated: for every entity e of the merged entity table the key set of
\* e.influx equals the set of the ids of the merged Reactions stanza that list
\* e as a destination, and the key set of e.outflux equals the set of those
\* that list e as a source.
C28_SameNetwork ==
    BothMerged =>
        \A e \in 1..Len(modelobjList[merged_modelobj]) :
            /\ KeySet(heap[modelobjList[merged_modelobj][e].v].influx)
                   = IntoIds(modelobjList[merged_modelobj][e].k)
            /\ KeySet(heap[modelobjList[merged_modelobj][e].v].outflux)
                   = OutOfIds(modelobjList[merged_modelobj][e].k)

\* C28: for inputs none of whose reaction ids begins with the prefix and for
\* every entity e of the merged entity table, every key of e.influx is the id
\* of a merged reaction that lists e as a destination and every key of
\* e.outflux the id of one that lists e as a source, with the rate law of that
\* reaction as its expression.
C28_FluxOfMergedReactions ==
    (BothMerged /\ \A i \in 1..N : PlainIds(i)) =>
        \A e \in 1..Len(modelobjList[merged_modelobj]) :
            /\ KeySet(heap[modelobjList[merged_modelobj][e].v].influx)
                   \subseteq IntoIds(modelobjList[merged_modelobj][e].k)
            /\ KeySet(heap[modelobjList[merged_modelobj][e].v].outflux)
                   \subseteq OutOfIds(modelobjList[merged_modelobj][e].k)
            /\ RateLawsOf(heap[modelobjList[merged_modelobj][e].v].influx)
            /\ RateLawsOf(heap[modelobjList[merged_modelobj][e].v].outflux)

\* two specifications are merged and an entity of the merged table has flux
\* entries, but not one for every merged reaction that lists it as a destination
C28_Witness ==
    /\ BothMerged
    /\ N = 2
    /\ \A i \in 1..N : PlainIds(i)
    /\ \E e \in 1..Len(modelobjList[merged_modelobj]) :
          /\ heap[modelobjList[merged_modelobj][e].v].influx # <<>>
          /\ KeySet(heap[modelobjList[merged_modelobj][e].v].influx)
                 # IntoIds(modelobjList[merged_modelobj][e].k)
(***************************************************************************)
(* C29: the initial value and the description of a merged entity.          *)
(***************************************************************************)
\* the last specification in list order that was read with the key in the stanza
LastWith(st, key) ==
    CHOOSE i \in 1..N : /\ Has(specList0[i][st], key)
                        /\ \A j \in (i + 1)..N : ~Has(specList0[j][st], key)

\* value['initial'] as GraphBuilder sets it from an Initials stanza
InitialFrom(initials, name) ==
    IF Has(initials, name) THEN StrVal(Get(initials, name)) ELSE IntVal(0)

\* C29 as stated: the merged entity's value['initial'] equals the merged
\* specification's Initials entry for its name (0 when absent) and its
\* description equals the merged Objects entry.
C29_TableAgreesWithStanza ==
    BothMerged =>
        \A e \in 1..Len(modelobjList[merged_modelobj]) :
            \A name \in {modelobjList[merged_modelobj][e].k} :
                /\ Get(heap[modelobjList[merged_modelobj][e].v].value, "initial")
                       = InitialFrom(specList[merged_spec].Initials, name)
                /\ heap[modelobjList[merged_modelobj][e].v].description
                       = Get(specList[merged_spec].Objects, name)

\* C29: the merged entity has the initial value (0 when absent there) and the
\* description of the first specification in list order that declares it,
\* the merged specification has the Initials entry and the Objects entry of
\* the last specification that has the key.
C29_FirstInTableLastInStanza ==
    BothMerged =>
        \A e \in 1..Len(modelobjList[merged_modelobj]) :
            \A name \in {modelobjList[merged_modelobj][e].k} :
                /\ Get(heap[modelobjList[merged_modelobj][e].v].value, "initial")
                       = InitialFrom(specList0[FirstDeclaring(modelobjList0, name)].Initials, name)
                /\ heap[modelobjList[merged_modelobj][e].v].description
                       = Get(specList0[FirstDeclaring(modelobjList0, name)].Objects, name)
                /\ Get(specList[merged_spec].Objects, name)
                       = Get(specList0[LastWith("Objects", name)].Objects, name)
                /\ (\E i \in 1..N : Has(specList0[i].Initials, name)) =>
                       /\ Has(specList[merged_spec].Initials, name)
                       /\ Get(specList[merged_spec].Initials, name)
                              = Get(specList0[LastWith("Initials", name)].Initials, name)

\* an entity declared in two specifications with different initial values
\* and descriptions: the table has those of the first, the stanzas those of
\* the second
C29_Witness ==
    /\ BothMerged
    /\ N = 2
    /\ Has(specList0[1].Initials, nameA) /\ Has(specList0[2].Initials, nameA)
    /\ Get(specList0[1].Initials, nameA) # Get(specList0[2].Initials, nameA)
    /\ Get(specList0[1].Objects, nameA) # Get(specList0[2].Objects, nameA)
    /\ Get(heap[Get(modelobjList[merged_modelobj], nameA)].value, "initial")
           = StrVal(Get(specList0[1].Initials, nameA))
    /\ Get(specList[merged_spec].Initials, nameA) = Get(specList0[2].Initials, nameA)
    /\ heap[Get(modelobjList[merged_modelobj], nameA)].description = Get(specList0[1].Objects, nameA)
    /\ Get(specList[merged_spec].Objects, nameA) = Get(specList0[2].Objects, nameA)

====
